---- MODULE Spec2Model ----
(***************************************************************************)
(* Graph workflow engine (builder, compiled graph, executor) together with *)
(* the workshop's demo graphs: their step functions, routers, wiring and   *)
(* initial states.                                                         *)
(*                                                                         *)
(* Conventions of the model                                                *)
(*   - a State is a function from field names to values;                   *)
(*   - a string that the code inspects is a sequence of words, a string    *)
(*     that the code only passes around is one word;                       *)
(*   - a float score is held in tenths (0.8 is 8), a spam score in         *)
(*     thirtieths (1/3 is 10);                                             *)
(*   - what an external collaborator (language model, web search) answers  *)
(*     is an input of the step, drawn from a small set;                    *)
(*   - a run keeps one or two invocations side by side (slots): the long   *)
(*     research runs are followed alone over all their answers, and two    *)
(*     at a time over the narrower sets of answers.                        *)
(***************************************************************************)
EXTENDS Integers, Sequences, FiniteSets, TLC

VARIABLES
    demo,        \* the script that is running
    slots,       \* how many invocations the run keeps side by side: 1 or 2
    bpc,         \* position in the script's builder calls
    lastCall,    \* the builder call made last
    builder,     \* the Graph Builder's accumulated state
    app,         \* the Compiled Graph (or the compile error)
    status,      \* per invocation: idle / running / done / failed
    cur,         \* per invocation: current node key (or END)
    state,       \* per invocation: the executor's current State
    alias,       \* per invocation: list fields whose list object is still the caller's
    heap,        \* the callers' list objects (initial_state's list values)
    init0,       \* per invocation: the initial_state value as the caller passed it
    steps,       \* per invocation: the step counter
    trace,       \* per invocation: node keys executed, in order
    error,       \* per invocation: the error the invocation failed with
    errnode,     \* per invocation: node key at which it failed
    lastArg,     \* per invocation: [pre, post] argument of the last step function call
    lastUpd,     \* per invocation: partial update returned by the last step function
    routerArg,   \* per invocation: state the router was last called with
    lastLabel,   \* per invocation: label the router last returned
    result,      \* per invocation: the final state returned to the caller
    searched,    \* per invocation: the questions handed to the search tool, in order
    cards,       \* per session of the web app: what each node's status card shows
    pending      \* per session of the web app: the initial_state of a submitted form

vars == <<demo, slots, bpc, lastCall, builder, app, status, cur, state, alias, heap, init0, steps,
          trace, error, errnode, lastArg, lastUpd, routerArg, lastLabel, result, searched,
          cards, pending>>

----------------------------------------------------------------------------
(* Bounds *)

\* hard ceiling of the per-invocation step counter
HardCeiling == 25
\* largest max_iterations of a caller whose loop ends below the ceiling
MaxIter == 4
\* builder calls made on the call-by-call builder
MaxCalls == 5

\* the invocations (two callers of one Compiled Graph)
Invs == {1, 2}

START == "__start__"
END == "__end__"
None == "none"
\* the mapping with no field
Empty == [f \in {} |-> 0]
NoUpd == Empty

----------------------------------------------------------------------------
(* Values *)

Min(a, b) == IF a <= b THEN a ELSE b

IsPrefix(s, t) == Len(s) <= Len(t) /\ SubSeq(t, 1, Len(s)) = s

Take(s, n) == SubSeq(s, 1, Min(n, Len(s)))

InSeq(x, s) == \E k \in 1..Len(s) : s[k] = x

\* str.lower() on one word
LowerWord(w) ==
    CASE w = "Basic" -> "basic"
      [] w = "Detailed" -> "detailed"
      [] w = "Comprehensive" -> "comprehensive"
      [] w = "URGENT" -> "urgent"
      [] w = "WINNER" -> "winner"
      [] w = "FREE" -> "free"
      [] w = "This" -> "this"
      [] w = "I" -> "i"
      [] w = "Just" -> "just"
      [] w = "What" -> "what"
      [] w = "How" -> "how"
      [] w = "LangGraph?" -> "langgraph?"
      [] OTHER -> w

Lower(s) == [k \in 1..Len(s) |-> LowerWord(s[k])]

\* `word in text`
Contains(s, w) == InSeq(w, s)

\* merge of a partial update: whole-value replacement of the fields it names
Merge(s, upd) ==
    [f \in (DOMAIN s) \cup (DOMAIN upd) |-> IF f \in DOMAIN upd THEN upd[f] ELSE s[f]]

----------------------------------------------------------------------------
(* Graph Builder *)

NewBuilder == [nodes |-> {}, edges |-> {}, cond |-> {}, entry |-> None, err |-> None]

Keys(b) == {n[1] : n \in b.nodes}

HasOutgoing(b, k) == (\E e \in b.edges : e[1] = k) \/ (\E c \in b.cond : c.from = k)

Fail(b, e) == [b EXCEPT !.err = e]

add_node(b, key, fn) ==
    IF key \in Keys(b) THEN Fail(b, "DuplicateNodeError")
    ELSE [b EXCEPT !.nodes = @ \cup {<<key, fn>>}]

add_edge(b, from, to) ==
    IF (from /= START /\ from \notin Keys(b)) \/ (to /= END /\ to \notin Keys(b))
    THEN Fail(b, "UnknownNodeError")
    ELSE IF HasOutgoing(b, from) THEN Fail(b, "ConflictingEdgeError")
    ELSE [b EXCEPT !.edges = @ \cup {<<from, to>>}]

add_conditional_edges(b, from, router, map) ==
    IF from \notin Keys(b) \/ (\E l \in DOMAIN map : map[l] /= END /\ map[l] \notin Keys(b))
    THEN Fail(b, "UnknownNodeError")
    ELSE IF HasOutgoing(b, from) THEN Fail(b, "ConflictingEdgeError")
    ELSE [b EXCEPT !.cond = @ \cup {[from |-> from, router |-> router, map |-> map]}]

set_entry_point(b, key) == [b EXCEPT !.entry = key]

\* the first node to run: set_entry_point's key, else the target of the edge from START
\* only set_entry_point names the entry point
EntryOfExplicitOnly(b) == b.entry

EntryOf(b) ==
    IF b.entry /= None THEN b.entry
    ELSE IF \E e \in b.edges : e[1] = START
         THEN (CHOOSE e \in b.edges : e[1] = START)[2]
         ELSE None

Referenced(b) ==
    ({e[1] : e \in b.edges} \ {START}) \cup ({e[2] : e \in b.edges} \ {END})
    \cup {c.from : c \in b.cond}
    \cup UNION {{c.map[l] : l \in DOMAIN c.map} \ {END} : c \in b.cond}
    \cup (IF EntryOf(b) = None THEN {} ELSE {EntryOf(b)})

OutgoingGroups(b, k) ==
    Cardinality({e \in b.edges : e[1] = k}) + Cardinality({c \in b.cond : c.from = k})

\* a node without an outgoing edge group is let through
CompileErrorSkipsOutgoing(b) ==
    IF EntryOf(b) = None THEN "NoEntryPointError"
    ELSE IF b.err /= None THEN b.err
    ELSE IF ~(Referenced(b) \subseteq Keys(b)) THEN "UnknownNodeError"
    ELSE IF \E k \in Keys(b) : OutgoingGroups(b, k) > 1 THEN "ConflictingEdgeError"
    ELSE None

CompileError(b) ==
    IF EntryOf(b) = None THEN "NoEntryPointError"
    ELSE IF b.err /= None THEN b.err
    ELSE IF ~(Referenced(b) \subseteq Keys(b)) THEN "UnknownNodeError"
    ELSE IF \E k \in Keys(b) : OutgoingGroups(b, k) > 1 THEN "ConflictingEdgeError"
    ELSE IF \E k \in Keys(b) : OutgoingGroups(b, k) = 0 THEN "GraphValidationError"
    ELSE None

NoApp == [ok |-> FALSE, err |-> None, nodes |-> {}, edges |-> {}, cond |-> {}, entry |-> None]

compile(b) ==
    IF CompileError(b) /= None
    THEN [NoApp EXCEPT !.err = CompileError(b)]
    ELSE [ok |-> TRUE, err |-> None, nodes |-> b.nodes,
          edges |-> {e \in b.edges : e[1] /= START}, cond |-> b.cond,
          entry |-> EntryOf(b)]

\* one builder call of a script
Call(op, a, f, m) == [op |-> op, a |-> a, f |-> f, m |-> m]
AddNode(key, fn) == Call("add_node", key, fn, NoUpd)
AddEdge(from, to) == Call("add_edge", from, to, NoUpd)
AddCond(from, router, map) == Call("add_conditional_edges", from, router, map)
SetEntry(key) == Call("set_entry_point", key, None, NoUpd)
NoCall == Call(None, None, None, NoUpd)

Apply(b, c) ==
    CASE c.op = "add_node" -> add_node(b, c.a, c.f)
      [] c.op = "add_edge" -> add_edge(b, c.a, c.f)
      [] c.op = "add_conditional_edges" -> add_conditional_edges(b, c.a, c.f, c.m)
      [] c.op = "set_entry_point" -> set_entry_point(b, c.a)

\* Compiled Graph lookups
NodeFn(g, k) == (CHOOSE n \in g.nodes : n[1] = k)[2]
HasFixed(g, k) == \E e \in g.edges : e[1] = k
FixedTarget(g, k) == (CHOOSE e \in g.edges : e[1] = k)[2]
HasCond(g, k) == \E c \in g.cond : c.from = k
CondOf(g, k) == CHOOSE c \in g.cond : c.from = k

----------------------------------------------------------------------------
(* What a step function call yields: the partial update it returns, the    *)
(* State object it was given as it is after the call, and the fields of    *)
(* the update whose value is the very object held by the argument.         *)

Ret(upd, arg, same) == [raised |-> FALSE, upd |-> upd, arg |-> arg, same |-> same]
Raise(arg) == [raised |-> TRUE, upd |-> NoUpd, arg |-> arg, same |-> {}]

\* a node that calls nothing external
NoInput == {[raise |-> FALSE]}
\* llm.invoke(prompt).content of a node that keeps the text as it is
LLMText == {[raise |-> FALSE, text |-> "answer"], [raise |-> TRUE, text |-> ""]}

----------------------------------------------------------------------------
(* task2/stategraph_demo.py *)

add_apple(s, x) ==
    Ret(("items" :> Append(s.items, "apple")) @@ ("total" :> s.total + 5), s, {})

\* the banana is put into an empty cart, whatever the state holds
add_banana_from_empty(s, x) ==
    Ret(("items" :> <<"banana">>) @@ ("total" :> 3), s, {})

add_banana(s, x) ==
    Ret(("items" :> Append(s.items, "banana")) @@ ("total" :> s.total + 3), s, {})

\* checkout also empties the cart
checkout_clears_cart(s, x) == Ret(("status" :> "paid") @@ ("items" :> << >>), s, {})

checkout(s, x) == Ret("status" :> "paid", s, {})

CartScript ==
    << AddNode("add_apple", "add_apple"),
       AddNode("add_banana", "add_banana"),
       AddNode("checkout", "checkout"),
       SetEntry("add_apple"),
       AddEdge("add_apple", "add_banana"),
       AddEdge("add_banana", "checkout"),
       AddEdge("checkout", END) >>

CartInitial ==
    { ("items" :> it) @@ ("total" :> tot) @@ ("status" :> "pending") :
        it \in {<< >>, <<"pear">>}, tot \in {0, 10} }

----------------------------------------------------------------------------
(* task5/loops_demo.py *)

\* the search leaves iteration as it found it
loops_search_node_no_increment(s, x) ==
    LET query == s.query
        iteration == s.iteration
        results == IF iteration = 0 THEN <<"Basic", "results", "for">> \o query
                   ELSE IF iteration = 1
                        THEN <<"Detailed", "results", "for">> \o query \o <<"with", "more", "context">>
                        ELSE <<"Comprehensive", "results", "for">> \o query
                                 \o <<"with", "citations", "and", "examples">>
    IN Ret(("search_results" :> results) @@ ("iteration" :> iteration), s, {})

loops_search_node(s, x) ==
    LET query == s.query
        iteration == s.iteration
        results == IF iteration = 0 THEN <<"Basic", "results", "for">> \o query
                   ELSE IF iteration = 1
                        THEN <<"Detailed", "results", "for">> \o query \o <<"with", "more", "context">>
                        ELSE <<"Comprehensive", "results", "for">> \o query
                                 \o <<"with", "citations", "and", "examples">>
    IN Ret(("search_results" :> results) @@ ("iteration" :> iteration + 1), s, {})

\* the score is returned under a key the router does not read
evaluate_node_wrong_key(s, x) ==
    LET results == s.search_results
        score == IF Contains(Lower(results), "comprehensive") THEN 9
                 ELSE IF Contains(Lower(results), "detailed") THEN 6
                 ELSE 3
    IN Ret("score" :> score, s, {})

\* detailed results are scored like comprehensive ones
evaluate_node_detailed_high(s, x) ==
    LET results == s.search_results
        score == IF Contains(Lower(results), "comprehensive") THEN 9
                 ELSE IF Contains(Lower(results), "detailed") THEN 9
                 ELSE 3
    IN Ret("quality_score" :> score, s, {})

evaluate_node(s, x) ==
    LET results == s.search_results
        score == IF Contains(Lower(results), "comprehensive") THEN 9
                 ELSE IF Contains(Lower(results), "detailed") THEN 6
                 ELSE 3
    IN Ret("quality_score" :> score, s, {})

loops_summarize_node(s, x) ==
    IF x.raise THEN Raise(s) ELSE Ret("final_answer" :> x.text, s, {})

\* the quality test is left out: only the iteration limit ends the loop
should_continue_limit_only(s) ==
    IF s.iteration >= s.max_iterations THEN "summarize"
    ELSE "search"

should_continue(s) ==
    IF s.iteration >= s.max_iterations THEN "summarize"
    ELSE IF s.quality_score >= 8 THEN "summarize"
    ELSE "search"

\* evaluate is also given a fixed edge to summarize
LoopsScriptBothKinds ==
    << AddNode("search", "loops_search_node"),
       AddNode("evaluate", "evaluate_node"),
       AddNode("summarize", "loops_summarize_node"),
       AddEdge(START, "search"),
       AddEdge("search", "evaluate"),
       AddCond("evaluate", "should_continue",
               ("search" :> "search") @@ ("summarize" :> "summarize")),
       AddEdge("evaluate", "summarize"),
       AddEdge("summarize", END) >>

\* the router is consulted before the first search: the run enters at evaluate
LoopsScriptCheckFirst ==
    << AddNode("search", "loops_search_node"),
       AddNode("evaluate", "evaluate_node"),
       AddNode("summarize", "loops_summarize_node"),
       AddEdge(START, "evaluate"),
       AddEdge("search", "evaluate"),
       AddCond("evaluate", "should_continue",
               ("search" :> "search") @@ ("summarize" :> "summarize")),
       AddEdge("summarize", END) >>

LoopsScript ==
    << AddNode("search", "loops_search_node"),
       AddNode("evaluate", "evaluate_node"),
       AddNode("summarize", "loops_summarize_node"),
       AddEdge(START, "search"),
       AddEdge("search", "evaluate"),
       AddCond("evaluate", "should_continue",
               ("search" :> "search") @@ ("summarize" :> "summarize")),
       AddEdge("summarize", END) >>

\* test_queries
LoopsQueries ==
    { <<"What", "is", "LangGraph?">>,
      <<"How", "do", "loops", "work", "in", "workflows?">> }

LoopsInitial ==
    { ("query" :> q) @@ ("search_results" :> << >>) @@ ("quality_score" :> 0)
        @@ ("iteration" :> 0) @@ ("max_iterations" :> m) @@ ("final_answer" :> "") :
        q \in LoopsQueries, m \in (-1)..MaxIter }

----------------------------------------------------------------------------
(* Text returned by the language model, line by line *)

\* str.strip() on one line
StripLine(l) ==
    CASE l = " " -> ""
      [] l = " q1 " -> "q1"
      [] OTHER -> l

\* [x.strip() for x in content.strip().split('\n') if x.strip()][:n]
RECURSIVE Stripped(_)
Stripped(lines) ==
    IF lines = << >> THEN << >>
    ELSE LET l == StripLine(Head(lines))
         IN IF l = "" THEN Stripped(Tail(lines)) ELSE <<l>> \o Stripped(Tail(lines))

CleanLines(lines, n) == Take(Stripped(lines), n)

\* s.get(f, [])
GetList(s, f) == IF f \in DOMAIN s THEN s[f] ELSE << >>

\* s.get(f, "")
GetStr(s, f) == IF f \in DOMAIN s THEN s[f] ELSE << >>

\* the argument after `state[f] = v`
SetKey(s, f, v) == [g \in (DOMAIN s) \cup {f} |-> IF g = f THEN v ELSE s[g]]

----------------------------------------------------------------------------
(* task1/stateful_graph.py *)

greet_person(s, x) == IF x.raise THEN Raise(s) ELSE Ret("greeting" :> x.text, s, {})

say_farewell(s, x) == IF x.raise THEN Raise(s) ELSE Ret("farewell" :> x.text, s, {})

check_memory(s, x) == Ret(NoUpd, s, {})

ConversationScript ==
    << AddNode("greet", "greet_person"),
       AddNode("farewell", "say_farewell"),
       AddNode("memory", "check_memory"),
       SetEntry("greet"),
       AddEdge("greet", "farewell"),
       AddEdge("farewell", "memory"),
       AddEdge("memory", END) >>

ConversationInitial == { "name" :> "Rayner Villalba" }

----------------------------------------------------------------------------
(* task3/nodes_demo.py *)

\* text.strip(): blanks at both ends go
RECURSIVE StripLeft(_)
StripLeft(s) == IF s /= << >> /\ Head(s) = " " THEN StripLeft(Tail(s)) ELSE s

RECURSIVE StripRight(_)
StripRight(s) ==
    IF s /= << >> /\ s[Len(s)] = " " THEN StripRight(SubSeq(s, 1, Len(s) - 1)) ELSE s

Strip(s) == StripRight(StripLeft(s))

\* text.split()
Split(s) == SelectSeq(s, LAMBDA w : w /= " ")

\* len(word) for the words of the test texts; a blank is one character
WordLen(w) ==
    CASE w \in {" ", "a", "I"} -> 1
      [] w \in {"is", "of"} -> 2
      [] w \in {"how", "bad"} -> 3
      [] w \in {"This", "work", "feel", "this", "Just"} -> 4
      [] w \in {"great", "nodes", "about", "text."} -> 5
      [] w = "normal" -> 6
      [] w = "example" -> 7
      [] w = "terrible" -> 8
      [] w = "together!" -> 9
      [] w = "situation." -> 10
      [] OTHER -> 1

RECURSIVE Chars(_)
Chars(s) == IF s = << >> THEN 0 ELSE WordLen(Head(s)) + Chars(Tail(s))

\* text[:n] counted in characters; a word cut short is <<word, characters kept>>
RECURSIVE TakeChars(_, _)
TakeChars(s, n) ==
    IF s = << >> \/ n <= 0 THEN << >>
    ELSE IF WordLen(Head(s)) <= n
         THEN <<Head(s)>> \o TakeChars(Tail(s), n - WordLen(Head(s)))
         ELSE << <<Head(s), n>> >>

CountIn(words, text) == Cardinality({w \in words : Contains(text, w)})

input_node(s, x) == Ret("text" :> Strip(GetStr(s, "text")), s, {})

analyze_node(s, x) == Ret("word_count" :> Len(Split(s.text)), s, {})

sentiment_node(s, x) ==
    LET positive_words == {"good", "great", "excellent", "happy", "amazing"}
        negative_words == {"bad", "terrible", "awful", "horrible", "sad"}
        text_lower == Lower(s.text)
        pos_count == CountIn(positive_words, text_lower)
        neg_count == CountIn(negative_words, text_lower)
        sentiment == IF pos_count > neg_count THEN "positive"
                     ELSE IF neg_count > pos_count THEN "negative"
                     ELSE IF s.word_count < 5 THEN "neutral"
                     ELSE "mixed"
    IN Ret("sentiment" :> sentiment, s, {})

output_node(s, x) ==
    Ret("output" :> [text |-> TakeChars(s.text, 50), dots |-> Chars(s.text) > 50,
                     word_count |-> s.word_count, sentiment |-> s.sentiment], s, {})

\* sentiment is wired back to analyze
NodesScriptBackEdge ==
    << AddNode("input", "input_node"),
       AddNode("analyze", "analyze_node"),
       AddNode("sentiment", "sentiment_node"),
       AddNode("output", "output_node"),
       AddEdge(START, "input"),
       AddEdge("input", "analyze"),
       AddEdge("analyze", "sentiment"),
       AddEdge("sentiment", "analyze"),
       AddEdge("output", END) >>

NodesScript ==
    << AddNode("input", "input_node"),
       AddNode("analyze", "analyze_node"),
       AddNode("sentiment", "sentiment_node"),
       AddNode("output", "output_node"),
       AddEdge(START, "input"),
       AddEdge("input", "analyze"),
       AddEdge("analyze", "sentiment"),
       AddEdge("sentiment", "output"),
       AddEdge("output", END) >>

NodesInitial ==
    { "text" :> txt :
        txt \in { <<"This", " ", "is", " ", "a", " ", "great", " ", "example", " ", "of", " ",
                    "how", " ", "nodes", " ", "work", " ", "together!">>,
                  <<"I", " ", "feel", " ", "bad", " ", "about", " ", "this", " ",
                    "terrible", " ", "situation.">>,
                  <<"Just", " ", "a", " ", "normal", " ", "text.">> } }

----------------------------------------------------------------------------
(* task4/edges_routing_demo.py *)

analyze_email(s, x) ==
    LET text == Lower(s.email_text)
        spam_words == {"free", "winner", "click here"}
    IN Ret("spam_score" :> CountIn(spam_words, text) * 10, s, {})

process_normal(s, x) == Ret(("category" :> "inbox") @@ ("priority" :> "normal"), s, {})

process_spam(s, x) == Ret(("category" :> "spam") @@ ("priority" :> "blocked"), s, {})

process_important(s, x) == Ret(("category" :> "inbox") @@ ("priority" :> "high"), s, {})

email_router(s) ==
    IF s.spam_score > 18 THEN "spam"
    ELSE IF Contains(Lower(s.email_text), "urgent") \/ Contains(Lower(s.email_text), "important")
         THEN "important"
    ELSE "normal"

\* the spam node is wired to a key that no add_node registered
EmailScriptUnknownTarget ==
    << AddNode("analyze", "analyze_email"),
       AddNode("normal", "process_normal"),
       AddNode("spam", "process_spam"),
       AddNode("important", "process_important"),
       AddEdge(START, "analyze"),
       AddCond("analyze", "email_router",
               ("spam" :> "spam") @@ ("important" :> "important") @@ ("normal" :> "normal")),
       AddEdge("spam", "junk"),
       AddEdge("important", END),
       AddEdge("normal", END) >>

\* the spam node is left without an edge
EmailScriptNoSpamEdge ==
    << AddNode("analyze", "analyze_email"),
       AddNode("normal", "process_normal"),
       AddNode("spam", "process_spam"),
       AddNode("important", "process_important"),
       AddEdge(START, "analyze"),
       AddCond("analyze", "email_router",
               ("spam" :> "spam") @@ ("important" :> "important") @@ ("normal" :> "normal")),
       AddEdge("important", END),
       AddEdge("normal", END) >>

EmailScript ==
    << AddNode("analyze", "analyze_email"),
       AddNode("normal", "process_normal"),
       AddNode("spam", "process_spam"),
       AddNode("important", "process_important"),
       AddEdge(START, "analyze"),
       AddCond("analyze", "email_router",
               ("spam" :> "spam") @@ ("important" :> "important") @@ ("normal" :> "normal")),
       AddEdge("spam", END),
       AddEdge("important", END),
       AddEdge("normal", END) >>

EmailInitial ==
    { ("email_text" :> e) @@ ("spam_score" :> 0) @@ ("category" :> "") @@ ("priority" :> "") :
        e \in { <<"meeting", "tomorrow">>,
                <<"WINNER", "click here", "FREE", "prize">>,
                <<"URGENT", "server", "down">>,
                <<"URGENT", "winner", "free">>,
                <<"cat", "photos">> } }

----------------------------------------------------------------------------
(* task6/tools_demo.py *)

\* ddgs.text(query, max_results=n): it raises, or returns up to n results
SearchOutcomes(n) == {[raise |-> TRUE, found |-> 0]} \cup {[raise |-> FALSE, found |-> m] : m \in 0..n}

\* the strings built from the results of one search
Hits(q, m) == [j \in 1..m |-> <<"hit", q, j>>]

enhance_query_node(s, x) ==
    IF x.raise THEN Raise(s) ELSE Ret("enhanced_query" :> StripLine(x.text), s, {})

\* without the try/except: a failure of the search tool leaves the node
tools_search_tool_node_unguarded(s, x) ==
    LET query == IF s.enhanced_query /= "" THEN s.enhanced_query ELSE s.query
        search_results ==
            IF x.found = 0 THEN << <<"No results found", query, 0>> >>
            ELSE Hits(query, x.found)
    IN IF x.raise THEN Raise(s) ELSE Ret("search_results" :> search_results, s, {})

tools_search_tool_node(s, x) ==
    LET query == IF s.enhanced_query /= "" THEN s.enhanced_query ELSE s.query
        search_results ==
            IF x.raise THEN << <<"Search error", query, 0>> >>
            ELSE IF x.found = 0 THEN << <<"No results found", query, 0>> >>
            ELSE Hits(query, x.found)
    IN Ret("search_results" :> search_results, s, {})

\* a failure of the model call is swallowed and an empty summary returned
tools_summarize_node_swallows(s, x) == Ret("summary" :> x.text, s, {})

tools_summarize_node(s, x) ==
    IF x.raise THEN Raise(s) ELSE Ret("summary" :> x.text, s, {})

\* the formatted text is returned under a key of its own
format_output_node_adds_key(s, x) == Ret(s @@ ("output" :> "text"), s, DOMAIN s)

\* return state
format_output_node(s, x) == Ret(s, s, DOMAIN s)

ToolsScript ==
    << AddNode("enhance_query", "enhance_query_node"),
       AddNode("search_tool", "tools_search_tool_node"),
       AddNode("summarize", "tools_summarize_node"),
       AddNode("format", "format_output_node"),
       AddEdge(START, "enhance_query"),
       AddEdge("enhance_query", "search_tool"),
       AddEdge("search_tool", "summarize"),
       AddEdge("summarize", "format"),
       AddEdge("format", END) >>

ToolsInitial ==
    { ("query" :> "What is LangGraph used for?") @@ ("enhanced_query" :> "")
        @@ ("search_results" :> << >>) @@ ("summary" :> "") }

\* the enhanced query the model may answer: a query, or blanks only
LLMQuery == {[raise |-> FALSE, text |-> "enhanced"], [raise |-> FALSE, text |-> " "],
             [raise |-> TRUE, text |-> ""]}

----------------------------------------------------------------------------
(* task7/memory_demo.py *)

\* the prefix of the question that the result string quotes
RECURSIVE SearchAppend(_, _)
SearchAppend(search_results, questions) ==
    IF questions = << >> THEN search_results
    ELSE SearchAppend(Append(search_results, <<"Result for", Head(questions)>>),
                      Tail(questions))

\* the new questions replace the ones the state holds
generate_questions_node_overwrites(s, x) ==
    IF x.raise THEN Raise(s)
    ELSE LET questions == CleanLines(x.lines, 3)
         IN Ret(("questions" :> questions)
                  @@ ("operations_count" :> s.operations_count + 1), s, {})

generate_questions_node(s, x) ==
    IF x.raise THEN Raise(s)
    ELSE LET questions == CleanLines(x.lines, 3)
             all_questions == GetList(s, "questions") \o questions
         IN Ret(("questions" :> all_questions)
                  @@ ("operations_count" :> s.operations_count + 1), s, {})

\* search_results is the State's own list: the appends change it in place
memory_search_node(s, x) ==
    LET search_results == SearchAppend(GetList(s, "search_results"), s.questions)
    IN Ret(("search_results" :> search_results)
             @@ ("operations_count" :> s.operations_count + 1),
           SetKey(s, "search_results", search_results), {"search_results"})

extract_key_points_node(s, x) ==
    IF x.raise THEN Raise(s)
    ELSE LET new_points == CleanLines(x.lines, 5)
             all_points == GetList(s, "key_points") \o new_points
         IN Ret(("key_points" :> all_points)
                  @@ ("operations_count" :> s.operations_count + 1), s, {})

build_knowledge_base_node(s, x) ==
    IF x.raise THEN Raise(s)
    ELSE Ret(("knowledge_base" :> x.text)
               @@ ("operations_count" :> s.operations_count + 1), s, {})

\* return state
display_memory_state(s, x) == Ret(s, s, DOMAIN s)

MemoryScript ==
    << AddNode("questions", "generate_questions_node"),
       AddNode("search", "memory_search_node"),
       AddNode("extract", "extract_key_points_node"),
       AddNode("synthesize", "build_knowledge_base_node"),
       AddNode("display", "display_memory_state"),
       AddEdge(START, "questions"),
       AddEdge("questions", "search"),
       AddEdge("search", "extract"),
       AddEdge("extract", "synthesize"),
       AddEdge("synthesize", "display"),
       AddEdge("display", END) >>

MemoryInitial ==
    { ("topic" :> "LangGraph memory management") @@ ("questions" :> qs)
        @@ ("search_results" :> << >>) @@ ("key_points" :> << >>)
        @@ ("knowledge_base" :> "") @@ ("operations_count" :> 0) :
        qs \in {<< >>, <<"q0">>} }

\* the questions the model may answer, one per line
LLMQuestions ==
    {[raise |-> TRUE, lines |-> << >>]} \cup
    {[raise |-> FALSE, lines |-> l] :
        l \in { << >>, <<"q1">>, <<" q1 ", " ", "q2">>, <<"q2", "q1", "q1", "q2">> }}

\* the key points or findings the model may answer, one per line
LLMPoints ==
    {[raise |-> TRUE, lines |-> << >>]} \cup
    {[raise |-> FALSE, lines |-> l] :
        l \in { << >>, <<"f1", "f2">>, <<"f1", "f2", "f3", "f4", "f5", "f6">> }}

----------------------------------------------------------------------------
(* task8/research_assistant.py *)

\* what the searches of one search node call do: the questions whose search raises,
\* and the number of results of a search that returns
SearchPlans == {[fail |-> fl, found |-> m] : fl \in {{}, {"q1"}, {"q1", "q2"}}, m \in {0, 2}}

\* for question in research_questions: if question not in search_queries: try ...
\* yields the two lists and the questions handed to ddgs.text, in order
RECURSIVE SearchLoop(_, _, _, _, _)
SearchLoop(questions, search_results, search_queries, asked, x) ==
    IF questions = << >>
    THEN [search_results |-> search_results, search_queries |-> search_queries,
          asked |-> asked]
    ELSE LET question == Head(questions)
         IN IF InSeq(question, search_queries)
            THEN SearchLoop(Tail(questions), search_results, search_queries, asked, x)
            ELSE IF question \in x.fail
            THEN SearchLoop(Tail(questions), search_results, search_queries,
                            Append(asked, question), x)
            ELSE SearchLoop(Tail(questions), search_results \o Hits(question, x.found),
                            Append(search_queries, question), Append(asked, question), x)

\* the questions one call of the search node hands to ddgs.text
Asked(s, x) ==
    SearchLoop(s.research_questions, GetList(s, "search_results"),
               GetList(s, "search_queries"), << >>, x).asked

ra_input_processor_node(s, x) ==
    IF x.raise THEN Raise(s)
    ELSE Ret(("topic" :> x.text) @@ ("status" :> "topic_processed"), s, {})

\* every line the model answered is kept, not the first three
ra_question_generator_node_keeps_all(s, x) ==
    IF x.raise THEN Raise(s)
    ELSE LET questions == Stripped(x.lines)
             all_questions == GetList(s, "research_questions") \o questions
         IN Ret(("research_questions" :> all_questions)
                  @@ ("status" :> "questions_generated"), s, {})

ra_question_generator_node(s, x) ==
    IF x.raise THEN Raise(s)
    ELSE LET questions == CleanLines(x.lines, 3)
             all_questions == GetList(s, "research_questions") \o questions
         IN Ret(("research_questions" :> all_questions)
                  @@ ("status" :> "questions_generated"), s, {})

\* both lists are the State's own lists: the appends change them in place
ra_search_tool_node(s, x) ==
    LET r == SearchLoop(s.research_questions, GetList(s, "search_results"),
                        GetList(s, "search_queries"), << >>, x)
    IN Ret(("search_results" :> r.search_results)
             @@ ("search_queries" :> r.search_queries)
             @@ ("iteration" :> s.iteration + 1)
             @@ ("status" :> "search_completed"),
           SetKey(SetKey(s, "search_results", r.search_results),
                  "search_queries", r.search_queries),
           {"search_results", "search_queries"})

\* the quality score is computed from the new findings alone
ra_analyzer_node_scores_new_only(s, x) ==
    IF s.search_results = << >>
    THEN Ret(("key_findings" :> <<"No search results to analyze">>)
               @@ ("quality_score" :> 0), s, {})
    ELSE IF x.raise THEN Raise(s)
    ELSE LET findings == CleanLines(x.lines, 5)
             all_findings == GetList(s, "key_findings") \o findings
             quality == Min(Len(findings) * 2, 10)
         IN Ret(("key_findings" :> all_findings) @@ ("quality_score" :> quality)
                  @@ ("status" :> "analysis_completed"), s, {})

ra_analyzer_node(s, x) ==
    IF s.search_results = << >>
    THEN Ret(("key_findings" :> <<"No search results to analyze">>)
               @@ ("quality_score" :> 0), s, {})
    ELSE IF x.raise THEN Raise(s)
    ELSE LET findings == CleanLines(x.lines, 5)
             all_findings == GetList(s, "key_findings") \o findings
             quality == Min(Len(all_findings) * 2, 10)
         IN Ret(("key_findings" :> all_findings) @@ ("quality_score" :> quality)
                  @@ ("status" :> "analysis_completed"), s, {})

ra_report_generator_node(s, x) ==
    IF x.raise THEN Raise(s)
    ELSE Ret(("final_report" :>
                [text |-> x.text, topic |-> s.topic,
                 questions |-> Len(s.research_questions),
                 sources |-> Len(s.search_results),
                 findings |-> Len(s.key_findings),
                 iterations |-> s.iteration])
               @@ ("status" :> "report_completed"), s, {})

\* the iteration limit is tested with > instead of >=
ra_should_continue_off_by_one(s) ==
    IF s.iteration > s.max_iterations THEN "report"
    ELSE IF s.quality_score >= 8 THEN "report"
    ELSE IF Len(GetList(s, "key_findings")) >= 10 THEN "report"
    ELSE "search"

ra_should_continue_research(s) ==
    IF s.iteration >= s.max_iterations THEN "report"
    ELSE IF s.quality_score >= 8 THEN "report"
    ELSE IF Len(GetList(s, "key_findings")) >= 10 THEN "report"
    ELSE "search"

\* the analyzer is registered under the key the search tool already has
ResearchScriptDuplicate ==
    << AddNode("input", "ra_input_processor_node"),
       AddNode("questions", "ra_question_generator_node"),
       AddNode("search", "ra_search_tool_node"),
       AddNode("search", "ra_analyzer_node"),
       AddNode("report", "ra_report_generator_node"),
       AddEdge(START, "input"),
       AddEdge("input", "questions"),
       AddEdge("questions", "search"),
       AddEdge("search", "analyze"),
       AddCond("analyze", "ra_should_continue_research",
               ("search" :> "questions") @@ ("report" :> "report")),
       AddEdge("report", END) >>

\* the label "search" is mapped to the search node
ResearchScriptSearchToSearch ==
    << AddNode("input", "ra_input_processor_node"),
       AddNode("questions", "ra_question_generator_node"),
       AddNode("search", "ra_search_tool_node"),
       AddNode("analyze", "ra_analyzer_node"),
       AddNode("report", "ra_report_generator_node"),
       AddEdge(START, "input"),
       AddEdge("input", "questions"),
       AddEdge("questions", "search"),
       AddEdge("search", "analyze"),
       AddCond("analyze", "ra_should_continue_research",
               ("search" :> "search") @@ ("report" :> "report")),
       AddEdge("report", END) >>

ResearchScript ==
    << AddNode("input", "ra_input_processor_node"),
       AddNode("questions", "ra_question_generator_node"),
       AddNode("search", "ra_search_tool_node"),
       AddNode("analyze", "ra_analyzer_node"),
       AddNode("report", "ra_report_generator_node"),
       AddEdge(START, "input"),
       AddEdge("input", "questions"),
       AddEdge("questions", "search"),
       AddEdge("search", "analyze"),
       AddCond("analyze", "ra_should_continue_research",
               ("search" :> "questions") @@ ("report" :> "report")),
       AddEdge("report", END) >>

\* findings a caller may hand over in the initial state
HeldFindings == [j \in 1..9 |-> "f0"]

\* initial_state, for a max_iterations and the findings handed over
ResearchStart(m, kf) ==
    ("topic" :> "Benefits of LangGraph") @@ ("research_questions" :> << >>)
        @@ ("search_queries" :> << >>) @@ ("search_results" :> << >>)
        @@ ("key_findings" :> kf) @@ ("iteration" :> 0) @@ ("max_iterations" :> m)
        @@ ("quality_score" :> 0) @@ ("final_report" :> "") @@ ("status" :> "initialized")

\* the script's initial_state has max_iterations 2 and no findings; a caller
\* of the app may declare any limit, one as large as the engine's ceiling included
ResearchInitial ==
    { ResearchStart(m, << >>) : m \in (0..MaxIter) \cup {HardCeiling} }
        \cup { ResearchStart(2, HeldFindings) }

----------------------------------------------------------------------------
(* task8/streamlit_app.py *)

st_input_processor_node(s, x) ==
    LET a == SetKey(s, "current_node", "input_processor")
    IN IF x.raise THEN Raise(a)
       ELSE Ret(("topic" :> x.text) @@ ("status" :> "topic_processed")
                  @@ ("current_node" :> "input_processor"), a, {})

st_question_generator_node(s, x) ==
    LET a == SetKey(s, "current_node", "question_generator")
    IN IF x.raise THEN Raise(a)
       ELSE LET questions == CleanLines(x.lines, 3)
                all_questions == GetList(s, "research_questions") \o questions
            IN Ret(("research_questions" :> all_questions)
                     @@ ("status" :> "questions_generated")
                     @@ ("current_node" :> "question_generator"), a, {})

st_search_tool_node(s, x) ==
    LET a == SetKey(s, "current_node", "search_tool")
        r == SearchLoop(s.research_questions, GetList(s, "search_results"),
                        GetList(s, "search_queries"), << >>, x)
    IN Ret(("search_results" :> r.search_results)
             @@ ("search_queries" :> r.search_queries)
             @@ ("iteration" :> s.iteration + 1)
             @@ ("status" :> "search_completed")
             @@ ("current_node" :> "search_tool"),
           SetKey(SetKey(a, "search_results", r.search_results),
                  "search_queries", r.search_queries),
           {"search_results", "search_queries"})

\* with no search results the placeholder is added to the findings held
st_analyzer_node_keeps_findings(s, x) ==
    LET a == SetKey(s, "current_node", "analyzer")
    IN IF s.search_results = << >>
       THEN Ret(("key_findings" :>
                   Append(GetList(s, "key_findings"), "No search results to analyze"))
                  @@ ("quality_score" :> 0), a, {})
       ELSE IF x.raise THEN Raise(a)
       ELSE LET findings == CleanLines(x.lines, 5)
                all_findings == GetList(s, "key_findings") \o findings
                quality == Min(Len(all_findings) * 2, 10)
            IN Ret(("key_findings" :> all_findings) @@ ("quality_score" :> quality)
                     @@ ("status" :> "analysis_completed")
                     @@ ("current_node" :> "analyzer"), a, {})

st_analyzer_node(s, x) ==
    LET a == SetKey(s, "current_node", "analyzer")
    IN IF s.search_results = << >>
       THEN Ret(("key_findings" :> <<"No search results to analyze">>)
                  @@ ("quality_score" :> 0), a, {})
       ELSE IF x.raise THEN Raise(a)
       ELSE LET findings == CleanLines(x.lines, 5)
                all_findings == GetList(s, "key_findings") \o findings
                quality == Min(Len(all_findings) * 2, 10)
            IN Ret(("key_findings" :> all_findings) @@ ("quality_score" :> quality)
                     @@ ("status" :> "analysis_completed")
                     @@ ("current_node" :> "analyzer"), a, {})

st_report_generator_node(s, x) ==
    LET a == SetKey(s, "current_node", "report_generator")
    IN IF x.raise THEN Raise(a)
       ELSE Ret(("final_report" :>
                   [text |-> x.text, topic |-> s.topic,
                    questions |-> Len(s.research_questions),
                    sources |-> Len(s.search_results),
                    findings |-> Len(s.key_findings),
                    iterations |-> s.iteration])
                  @@ ("status" :> "report_completed")
                  @@ ("current_node" :> "report_generator"), a, {})

\* the iteration limit is passed before it stops the research
st_should_continue_research_past_limit(s) ==
    IF s.iteration > s.max_iterations THEN "report"
    ELSE IF s.quality_score >= 8 THEN "report"
    ELSE IF Len(GetList(s, "key_findings")) >= 10 THEN "report"
    ELSE "search"

st_should_continue_research(s) ==
    IF s.iteration >= s.max_iterations THEN "report"
    ELSE IF s.quality_score >= 8 THEN "report"
    ELSE IF Len(GetList(s, "key_findings")) >= 10 THEN "report"
    ELSE "search"

\* build_workflow()
StreamlitScript ==
    << AddNode("input", "st_input_processor_node"),
       AddNode("questions", "st_question_generator_node"),
       AddNode("search", "st_search_tool_node"),
       AddNode("analyze", "st_analyzer_node"),
       AddNode("report", "st_report_generator_node"),
       AddEdge(START, "input"),
       AddEdge("input", "questions"),
       AddEdge("questions", "search"),
       AddEdge("search", "analyze"),
       AddCond("analyze", "st_should_continue_research",
               ("search" :> "questions") @@ ("report" :> "report")),
       AddEdge("report", END) >>

\* the sidebar's Quality Threshold slider: 0.5 to 1.0 in steps of 0.1 (in tenths)
QualityThresholds == 5..10

\* the initial_state main() builds when the form is submitted; the slider's
\* quality_threshold is read from the sidebar and used nowhere
StreamlitSubmit(topic, max_iterations, quality_threshold) ==
    ("topic" :> topic) @@ ("research_questions" :> << >>)
        @@ ("search_queries" :> << >>) @@ ("search_results" :> << >>)
        @@ ("key_findings" :> << >>) @@ ("iteration" :> 0)
        @@ ("max_iterations" :> max_iterations)
        @@ ("quality_score" :> 0) @@ ("final_report" :> "") @@ ("status" :> "initialized")
        @@ ("current_node" :> "")

\* the sidebar's Max Iterations slider: 1 to 5
MaxIterations == 1..5

\* main(): initial_state, from the topic and the sidebar's sliders
StreamlitInitial(i) ==
    { StreamlitSubmit(tp, m, th) :
        tp \in {"topic A", "topic B"}, m \in MaxIterations, th \in QualityThresholds }

\* what the collaborators answer in the web app's sessions
StLLMQuestions ==
    {[raise |-> TRUE, lines |-> << >>]} \cup
    {[raise |-> FALSE, lines |-> l] :
        l \in { << >>, <<"q1">>, <<"q1", "q2">>, <<"q1", "q2", "q3", "q4">> }}
StLLMPoints ==
    {[raise |-> TRUE, lines |-> << >>]} \cup
    {[raise |-> FALSE, lines |-> l] :
        l \in { << >>, <<"f1", "f2", "f3", "f4">>,
                <<"f1", "f2", "f3", "f4", "f5", "f6">> }}
StSearchPlans == {[fail |-> fl, found |-> m] : fl \in {{}, {"q1"}}, m \in {1}}
StLLMText == {[raise |-> TRUE, text |-> ""], [raise |-> FALSE, text |-> "answer"]}

----------------------------------------------------------------------------
(* A builder driven call by call, over the keys A, B and an unregistered key C,   *)
(* with the step function and the router of the design's test scenarios: a node   *)
(* that adds 1 to x, and a router that loops until x reaches a limit.             *)

inc_x(s, x) == Ret("x" :> s.x + 1, s, {})

keep_x(s, x) == Ret(NoUpd, s, {})

\* the outcome of a router call that raised instead of returning a label
RouterRaised == "__raised__"

x_router(s) ==
    IF s.x >= s.limit
    THEN (IF s.exit = "raise" THEN RouterRaised ELSE s.exit)
    ELSE "again"

AdhocCalls ==
    { AddNode("A", "inc_x"), AddNode("B", "inc_x"), AddNode("A", "keep_x"),
      SetEntry("A"), AddEdge(START, "A"),
      AddEdge("A", "B"), AddEdge("A", END), AddEdge("B", END), AddEdge("B", "A"),
      AddEdge("A", "C"),
      AddCond("B", "x_router", ("again" :> "A") @@ ("stop" :> END)) }

AdhocInitial ==
    { ("x" :> 0) @@ ("limit" :> l) @@ ("exit" :> e) :
        l \in {2, HardCeiling * 10}, e \in {"stop", "bogus", "raise"} }

----------------------------------------------------------------------------
(* task8/streamlit_app.py main(): the status cards of a submitted form *)

\* nodes = ["input", "questions", "search", "analyze", "report"]
CardNodes == <<"input", "questions", "search", "analyze", "report">>

\* no form was submitted: there are no cards
NoCards == Empty

\* st.metric(label, "Waiting") for every node
WaitingCards == [n \in {CardNodes[j] : j \in 1..Len(CardNodes)} |-> "Waiting"]

\* no form is submitted and waiting for its workflow to start
NoPending == Empty

\* the cards that show a given text
CardsShowing(shown, text) == {n \in DOMAIN shown : shown[n] = text}

\* the node the progress loop turns to next: the first whose card is Waiting
NextCard(shown) ==
    CardNodes[CHOOSE j \in 1..Len(CardNodes) :
                 /\ shown[CardNodes[j]] = "Waiting"
                 /\ \A k \in 1..(j - 1) : shown[CardNodes[k]] /= "Waiting"]

\* st.metric(label, "Active", delta="Processing") on the node's card
ShowActive(shown, node) == [shown EXCEPT ![node] = "Active"]

\* st.metric(label, "Done", delta="Complete") on the node's card
ShowDone(shown, node) == [shown EXCEPT ![node] = "Done"]

\* the progress loop has ended: every card shows Done
ProgressOver(shown) == shown /= NoCards /\ \A n \in DOMAIN shown : shown[n] = "Done"

----------------------------------------------------------------------------
(* The design's loop scenario: search increments iteration, evaluate sets the      *)
(* quality given for that iteration, and the router returns "search" while         *)
(* quality < 0.8 and iteration < 3, "summarize" otherwise. Qualities in tenths.    *)

sc_search(s, x) == Ret("iteration" :> s.iteration + 1, s, {})

sc_evaluate(s, x) == Ret("quality" :> s.given[s.iteration], s, {})

sc_summarize(s, x) == Ret(NoUpd, s, {})

sc_router(s) ==
    IF s.quality < 8 /\ s.iteration < 3 THEN "search" ELSE "summarize"

LoopScenarioScript ==
    << AddNode("search", "sc_search"),
       AddNode("evaluate", "sc_evaluate"),
       AddNode("summarize", "sc_summarize"),
       SetEntry("search"),
       AddEdge("search", "evaluate"),
       AddCond("evaluate", "sc_router",
               ("search" :> "search") @@ ("summarize" :> "summarize")),
       AddEdge("summarize", END) >>

\* given[n] is the quality the evaluation of iteration n finds
LoopScenarioInitial ==
    { ("iteration" :> 0) @@ ("quality" :> 0) @@ ("given" :> <<a, b, c>>) :
        a \in {3, 8}, b \in {6, 8}, c \in {7, 9} }

Scenarios == {"loop_scenario"}

----------------------------------------------------------------------------
(* The scripts *)

Demos == {"stateful_graph", "stategraph_demo", "nodes_demo", "edges_routing_demo",
          "loops_demo", "tools_demo", "memory_demo", "research_assistant", "streamlit_app"}

Script(d) ==
    CASE d = "stateful_graph" -> ConversationScript
      [] d = "stategraph_demo" -> CartScript
      [] d = "nodes_demo" -> NodesScript
      [] d = "edges_routing_demo" -> EmailScript
      [] d = "loops_demo" -> LoopsScript
      [] d = "tools_demo" -> ToolsScript
      [] d = "memory_demo" -> MemoryScript
      [] d = "research_assistant" -> ResearchScript
      [] d = "streamlit_app" -> StreamlitScript
      [] d = "loop_scenario" -> LoopScenarioScript

Initial(d, i) ==
    CASE d = "stateful_graph" -> ConversationInitial
      [] d = "stategraph_demo" -> CartInitial
      [] d = "nodes_demo" -> NodesInitial
      [] d = "edges_routing_demo" -> EmailInitial
      [] d = "loops_demo" -> LoopsInitial
      [] d = "tools_demo" -> ToolsInitial
      [] d = "memory_demo" -> MemoryInitial
      [] d = "research_assistant" -> ResearchInitial
      [] d = "streamlit_app" -> StreamlitInitial(i)
      [] d = "adhoc" -> AdhocInitial
      [] d = "loop_scenario" -> LoopScenarioInitial

\* the fields of the script's state type that are declared List[str]
ListFields(d) ==
    CASE d = "stategraph_demo" -> {"items"}
      [] d = "tools_demo" -> {"search_results"}
      [] d = "memory_demo" -> {"questions", "search_results", "key_points"}
      [] d \in {"research_assistant", "streamlit_app"} ->
            {"research_questions", "search_queries", "search_results", "key_findings"}
      [] OTHER -> {}

AllListFields == UNION {ListFields(d) : d \in Demos}

\* the web app caches one Compiled Graph and invokes it from every session
Concurrent(d) == d = "streamlit_app"

\* the scripts whose test loop invokes the one Compiled Graph again and again,
\* each time with an initial_state built anew
Sequential(d) ==
    d \in {"nodes_demo", "edges_routing_demo", "loops_demo", "tools_demo", "memory_demo",
           "research_assistant"}

\* the callers that call app.invoke inside try/except and go on after a failure
Guarded(d) == d \in {"tools_demo", "research_assistant", "streamlit_app"}

\* the scripts whose runs are long: two of their invocations are kept side by
\* side only with the collaborators' answers drawn from the narrower sets
LongRuns == {"research_assistant", "streamlit_app"}

Slots(d) ==
    IF d \in LongRuns THEN {1, 2}
    ELSE IF Concurrent(d) \/ Sequential(d) THEN {2}
    ELSE {1}

\* what the external collaborators of a step function may answer
Inputs(fn, s) ==
    CASE fn \in {"greet_person", "say_farewell", "loops_summarize_node",
                 "tools_summarize_node", "build_knowledge_base_node",
                 "ra_input_processor_node", "ra_report_generator_node"} -> LLMText
      [] fn = "enhance_query_node" -> LLMQuery
      [] fn = "tools_search_tool_node" -> SearchOutcomes(3)
      [] fn \in {"generate_questions_node", "ra_question_generator_node"} -> LLMQuestions
      [] fn \in {"extract_key_points_node", "ra_analyzer_node"} -> LLMPoints
      [] fn = "ra_search_tool_node" -> SearchPlans
      [] fn \in {"st_input_processor_node", "st_report_generator_node"} -> StLLMText
      [] fn = "st_question_generator_node" -> StLLMQuestions
      [] fn = "st_analyzer_node" -> StLLMPoints
      [] fn = "st_search_tool_node" -> StSearchPlans
      [] OTHER -> NoInput

\* two invocations are kept side by side and the runs are long
Narrow == slots = 2 /\ demo \in LongRuns

\* the narrower sets of answers
NarrowInputs(fn, s) ==
    CASE fn = "ra_question_generator_node" ->
            {x \in LLMQuestions : ~x.raise /\ Len(x.lines) \in {1, 4}}
      [] fn = "ra_analyzer_node" -> {x \in LLMPoints : x.raise \/ Len(x.lines) \in {2, 6}}
      [] fn = "ra_search_tool_node" -> {x \in SearchPlans : x.fail \in {{}, {"q1"}} /\ x.found = 2}
      [] fn = "st_question_generator_node" ->
            {x \in StLLMQuestions : x.raise \/ Len(x.lines) = 1}
      [] fn = "st_analyzer_node" -> {x \in StLLMPoints : ~x.raise /\ Len(x.lines) \in {0, 4}}
      [] fn = "st_search_tool_node" -> {x \in StSearchPlans : x.fail = {}}
      [] OTHER -> Inputs(fn, s)

\* the narrower sets of initial states: the script's own initial_state; in the
\* web app every value of the sliders, the first session on the first topic
NarrowInitial(d, i) ==
    IF d = "research_assistant" THEN {s0 \in ResearchInitial : s0 = ResearchStart(2, << >>)}
    ELSE {s0 \in StreamlitInitial(i) : i = 1 => s0.topic = "topic A"}

\* the call belongs to the third or a later pass of a long run's loop: search
\* is the one node that counts the passes, and analyze runs after it
LaterPass(fn, s) ==
    /\ demo \in LongRuns
    /\ \/ fn \in {"ra_question_generator_node", "ra_search_tool_node",
                  "st_question_generator_node", "st_search_tool_node"} /\ s.iteration >= 2
       \/ fn \in {"ra_analyzer_node", "st_analyzer_node"} /\ s.iteration >= 3

\* the narrower sets of answers of the later passes
LaterInputs(fn, s) ==
    CASE fn = "ra_question_generator_node" ->
            {x \in LLMQuestions : x.raise \/ x.lines = <<"q1">>}
      [] fn = "ra_analyzer_node" -> {x \in LLMPoints : ~x.raise /\ Len(x.lines) \in {0, 2}}
      [] fn = "ra_search_tool_node" -> {x \in SearchPlans : x.fail \in {{}, {"q1"}} /\ x.found = 2}
      [] fn = "st_question_generator_node" ->
            {x \in StLLMQuestions : x.raise \/ Len(x.lines) = 1}
      [] fn = "st_analyzer_node" -> {x \in StLLMPoints : ~x.raise /\ Len(x.lines) \in {0, 4}}
      [] OTHER -> Inputs(fn, s)

\* what the collaborators answer in this run
Answers(fn, s) ==
    IF Narrow THEN NarrowInputs(fn, s)
    ELSE IF LaterPass(fn, s) THEN LaterInputs(fn, s)
    ELSE Inputs(fn, s)

\* the initial_state values the caller builds in this run
Arguments(i) == IF Narrow THEN NarrowInitial(demo, i) ELSE Initial(demo, i)

\* the node registry's step functions
StepFn(fn, s, x) ==
    CASE fn = "greet_person" -> greet_person(s, x)
      [] fn = "say_farewell" -> say_farewell(s, x)
      [] fn = "check_memory" -> check_memory(s, x)
      [] fn = "add_apple" -> add_apple(s, x)
      [] fn = "add_banana" -> add_banana(s, x)
      [] fn = "checkout" -> checkout(s, x)
      [] fn = "input_node" -> input_node(s, x)
      [] fn = "analyze_node" -> analyze_node(s, x)
      [] fn = "sentiment_node" -> sentiment_node(s, x)
      [] fn = "output_node" -> output_node(s, x)
      [] fn = "analyze_email" -> analyze_email(s, x)
      [] fn = "process_normal" -> process_normal(s, x)
      [] fn = "process_spam" -> process_spam(s, x)
      [] fn = "process_important" -> process_important(s, x)
      [] fn = "loops_search_node" -> loops_search_node(s, x)
      [] fn = "evaluate_node" -> evaluate_node(s, x)
      [] fn = "loops_summarize_node" -> loops_summarize_node(s, x)
      [] fn = "enhance_query_node" -> enhance_query_node(s, x)
      [] fn = "tools_search_tool_node" -> tools_search_tool_node(s, x)
      [] fn = "tools_summarize_node" -> tools_summarize_node(s, x)
      [] fn = "format_output_node" -> format_output_node(s, x)
      [] fn = "generate_questions_node" -> generate_questions_node(s, x)
      [] fn = "memory_search_node" -> memory_search_node(s, x)
      [] fn = "extract_key_points_node" -> extract_key_points_node(s, x)
      [] fn = "build_knowledge_base_node" -> build_knowledge_base_node(s, x)
      [] fn = "display_memory_state" -> display_memory_state(s, x)
      [] fn = "ra_input_processor_node" -> ra_input_processor_node(s, x)
      [] fn = "ra_question_generator_node" -> ra_question_generator_node(s, x)
      [] fn = "ra_search_tool_node" -> ra_search_tool_node(s, x)
      [] fn = "ra_analyzer_node" -> ra_analyzer_node(s, x)
      [] fn = "ra_report_generator_node" -> ra_report_generator_node(s, x)
      [] fn = "st_input_processor_node" -> st_input_processor_node(s, x)
      [] fn = "st_question_generator_node" -> st_question_generator_node(s, x)
      [] fn = "st_search_tool_node" -> st_search_tool_node(s, x)
      [] fn = "st_analyzer_node" -> st_analyzer_node(s, x)
      [] fn = "st_report_generator_node" -> st_report_generator_node(s, x)
      [] fn = "inc_x" -> inc_x(s, x)
      [] fn = "keep_x" -> keep_x(s, x)
      [] fn = "sc_search" -> sc_search(s, x)
      [] fn = "sc_evaluate" -> sc_evaluate(s, x)
      [] fn = "sc_summarize" -> sc_summarize(s, x)

\* the edge table's router functions
RouterFn(r, s) ==
    CASE r = "email_router" -> email_router(s)
      [] r = "should_continue" -> should_continue(s)
      [] r = "ra_should_continue_research" -> ra_should_continue_research(s)
      [] r = "st_should_continue_research" -> st_should_continue_research(s)
      [] r = "x_router" -> x_router(s)
      [] r = "sc_router" -> sc_router(s)

\* the questions a call of the step function hands to the search tool
\* (ddgs.text), in order
AskedBy(fn, s, x) ==
    IF fn \in {"ra_search_tool_node", "st_search_tool_node"} THEN Asked(s, x)
    ELSE IF fn = "tools_search_tool_node"
         THEN << IF s.enhanced_query /= "" THEN s.enhanced_query ELSE s.query >>
         ELSE << >>

----------------------------------------------------------------------------
(* Executor *)

\* the caller's list object behind field f of invocation i's initial_state
\* every session is handed the same list objects
InitObjShared(i, f) == <<1, f>>

InitObj(i, f) == <<i, f>>

Objs == Invs \X AllListFields

\* every State sees the current content of the caller's list objects it still holds
Sync(st, al, hp) ==
    [i \in Invs |->
        [f \in DOMAIN st[i] |-> IF f \in al[i] THEN hp[InitObj(i, f)] ELSE st[i][f]]]

\* the initial_state object as the caller sees it now
CallerState(i) ==
    [f \in DOMAIN init0[i] |->
        IF f \in ListFields(demo) THEN heap[InitObj(i, f)] ELSE init0[i][f]]

\* the State after the call's in-place changes: list objects are shared with the
\* argument, the argument's own keys are not
InPlace(s, arg) ==
    [f \in DOMAIN s |-> IF f \in ListFields(demo) /\ f \in DOMAIN arg THEN arg[f] ELSE s[f]]

\* the ceiling is tested two steps late
ExceedsCeilingLate(n) == n > HardCeiling + 2

\* the step counter has passed the hard ceiling
ExceedsCeiling(n) == n > HardCeiling

\* the run also returns on reaching a node whose edge leads to the terminal marker
AtTerminalOrBeforeLast(i) ==
    \/ cur[i] = END
    \/ HasFixed(app, cur[i]) /\ FixedTarget(app, cur[i]) = END

\* the current node is the terminal marker
AtTerminal(i) == cur[i] = END

NextNode(g, k, s) ==
    IF HasFixed(g, k)
    THEN [ok |-> TRUE, raised |-> FALSE, label |-> None, to |-> FixedTarget(g, k)]
    ELSE LET c == CondOf(g, k)
             label == RouterFn(c.router, s)
         IN IF label = RouterRaised
            THEN [ok |-> FALSE, raised |-> TRUE, label |-> label, to |-> None]
            ELSE IF label \in DOMAIN c.map
            THEN [ok |-> TRUE, raised |-> FALSE, label |-> label, to |-> c.map[label]]
            ELSE [ok |-> FALSE, raised |-> FALSE, label |-> label, to |-> None]

Init ==
    /\ demo \in Demos \cup Scenarios \cup {"adhoc"}
    /\ slots \in Slots(demo)
    /\ bpc = 1
    /\ lastCall = NoCall
    /\ builder = NewBuilder
    /\ app = NoApp
    /\ status = [i \in Invs |-> "idle"]
    /\ cur = [i \in Invs |-> None]
    /\ state = [i \in Invs |-> Empty]
    /\ alias = [i \in Invs |-> {}]
    /\ heap = [o \in Objs |-> << >>]
    /\ init0 = [i \in Invs |-> Empty]
    /\ steps = [i \in Invs |-> 0]
    /\ trace = [i \in Invs |-> << >>]
    /\ error = [i \in Invs |-> None]
    /\ errnode = [i \in Invs |-> None]
    /\ lastArg = [i \in Invs |-> [pre |-> Empty, post |-> Empty]]
    /\ lastUpd = [i \in Invs |-> NoUpd]
    /\ routerArg = [i \in Invs |-> Empty]
    /\ lastLabel = [i \in Invs |-> None]
    /\ result = [i \in Invs |-> Empty]
    /\ searched = [i \in Invs |-> << >>]
    /\ cards = [i \in Invs |-> NoCards]
    /\ pending = [i \in Invs |-> NoPending]

runVars == <<status, cur, state, alias, heap, init0, steps, trace, error, errnode,
             lastArg, lastUpd, routerArg, lastLabel, result, searched, cards, pending>>

\* a session of the web app has drawn its cards and calls build_workflow()
AtBuildWorkflow == \E i \in Invs : pending[i] /= NoPending

\* the script's next builder call
BuildStep ==
    /\ demo \in Demos \cup Scenarios
    /\ Concurrent(demo) => AtBuildWorkflow
    /\ app = NoApp
    /\ bpc <= Len(Script(demo))
    /\ builder.err = None
    /\ builder' = Apply(builder, Script(demo)[bpc])
    /\ lastCall' = Script(demo)[bpc]
    /\ bpc' = bpc + 1
    /\ UNCHANGED <<demo, slots, app>>
    /\ UNCHANGED runVars

\* any builder call, on the call-by-call builder
BuildAny ==
    /\ demo = "adhoc"
    /\ app = NoApp
    /\ bpc <= MaxCalls
    /\ builder.err = None
    /\ \E c \in AdhocCalls :
          /\ builder' = Apply(builder, c)
          /\ lastCall' = c
    /\ bpc' = bpc + 1
    /\ UNCHANGED <<demo, slots, app>>
    /\ UNCHANGED runVars

\* app = workflow.compile()
Compile ==
    /\ app = NoApp
    /\ Concurrent(demo) => AtBuildWorkflow
    /\ demo \in Demos \cup Scenarios => (bpc = Len(Script(demo)) + 1 \/ builder.err /= None)
    /\ app' = compile(builder)
    /\ UNCHANGED <<demo, slots, bpc, lastCall, builder>>
    /\ UNCHANGED runVars

\* an app.invoke that is not inside try/except has raised: the script has ended
\* with the exception
ScriptStopped ==
    /\ demo \in Demos
    /\ ~Guarded(demo)
    /\ \E j \in Invs : status[j] = "failed"

\* which invocation the script may start now: the sessions of the web app in
\* any order, the iterations of a test loop one after the other (1 is the
\* first iteration, 2 every later one), the one invocation of the other scripts;
\* with one slot every run is invocation 1, each starting when the last has ended;
\* none after the script has ended
MayInvoke(i) ==
    /\ i <= slots
    /\ ~ScriptStopped
    /\ \/ Concurrent(demo)
       \/ /\ Sequential(demo) /\ slots = 2
          /\ \/ i = 1 /\ status[1] = "idle"
             \/ i = 2 /\ status[1] \in {"done", "failed"}
       \/ i = 1 /\ (~Sequential(demo) \/ slots = 1)

\* the initial_state handed to app.invoke: the one of the submitted form once
\* the progress loop has ended, the one the script builds now
InvokeArguments(i) ==
    IF Concurrent(demo)
    THEN (IF pending[i] /= NoPending /\ ProgressOver(cards[i]) THEN {pending[i]} ELSE {})
    ELSE Arguments(i)

\* main(), on a submitted form with a topic: initial_state is built and the five
\* status cards are drawn, each Waiting; what the last run left on the page is gone
Submit(i) ==
    /\ Concurrent(demo)
    /\ i <= slots
    /\ status[i] /= "running"
    /\ pending[i] = NoPending
    /\ \E s0 \in Arguments(i) : pending' = [pending EXCEPT ![i] = s0]
    /\ cards' = [cards EXCEPT ![i] = WaitingCards]
    /\ status' = [status EXCEPT ![i] = "idle"]
    /\ cur' = [cur EXCEPT ![i] = None]
    /\ state' = [state EXCEPT ![i] = Empty]
    /\ alias' = [alias EXCEPT ![i] = {}]
    /\ init0' = [init0 EXCEPT ![i] = Empty]
    /\ steps' = [steps EXCEPT ![i] = 0]
    /\ trace' = [trace EXCEPT ![i] = << >>]
    /\ error' = [error EXCEPT ![i] = None]
    /\ errnode' = [errnode EXCEPT ![i] = None]
    /\ lastArg' = [lastArg EXCEPT ![i] = [pre |-> Empty, post |-> Empty]]
    /\ lastUpd' = [lastUpd EXCEPT ![i] = NoUpd]
    /\ routerArg' = [routerArg EXCEPT ![i] = Empty]
    /\ lastLabel' = [lastLabel EXCEPT ![i] = None]
    /\ result' = [result EXCEPT ![i] = Empty]
    /\ searched' = [searched EXCEPT ![i] = << >>]
    /\ UNCHANGED <<demo, slots, bpc, lastCall, builder, app, heap>>

\* the progress loop, up to its delay: build_workflow() has returned the cached
\* Compiled Graph, and the next node's card shows Active
ProgressActive(i) ==
    /\ pending[i] /= NoPending
    /\ app.ok
    /\ CardsShowing(cards[i], "Active") = {}
    /\ CardsShowing(cards[i], "Waiting") /= {}
    /\ cards' = [cards EXCEPT ![i] = ShowActive(@, NextCard(@))]
    /\ UNCHANGED <<demo, slots, bpc, lastCall, builder, app, status, cur, state, alias, heap,
                   init0, steps, trace, error, errnode, lastArg, lastUpd, routerArg,
                   lastLabel, result, searched, pending>>

\* the progress loop, after its delay: the card that shows Active shows Done
ProgressDone(i) ==
    /\ pending[i] /= NoPending
    /\ CardsShowing(cards[i], "Active") /= {}
    /\ cards' = [cards EXCEPT ![i] =
                   ShowDone(@, CHOOSE n \in CardsShowing(@, "Active") : TRUE)]
    /\ UNCHANGED <<demo, slots, bpc, lastCall, builder, app, status, cur, state, alias, heap,
                   init0, steps, trace, error, errnode, lastArg, lastUpd, routerArg,
                   lastLabel, result, searched, pending>>

\* the step counter of the previous run is kept
InvokeKeepsSteps(i) ==
    /\ app.ok
    /\ status[i] /= "running"
    /\ MayInvoke(i)
    /\ \E s0 \in InvokeArguments(i) :
        LET lf == ListFields(demo) \cap DOMAIN s0
            hp == [o \in Objs |-> IF \E f \in lf : o = InitObj(i, f)
                                  THEN s0[o[2]] ELSE heap[o]]
            al == [alias EXCEPT ![i] = lf]
        IN /\ heap' = hp
           /\ alias' = al
           /\ init0' = [init0 EXCEPT ![i] = s0]
           /\ state' = Sync([state EXCEPT ![i] = s0], al, hp)
    /\ status' = [status EXCEPT ![i] = "running"]
    /\ cur' = [cur EXCEPT ![i] = app.entry]
    /\ steps' = steps
    /\ trace' = [trace EXCEPT ![i] = << >>]
    /\ error' = [error EXCEPT ![i] = None]
    /\ errnode' = [errnode EXCEPT ![i] = None]
    /\ lastArg' = [lastArg EXCEPT ![i] = [pre |-> Empty, post |-> Empty]]
    /\ lastUpd' = [lastUpd EXCEPT ![i] = NoUpd]
    /\ routerArg' = [routerArg EXCEPT ![i] = Empty]
    /\ lastLabel' = [lastLabel EXCEPT ![i] = None]
    /\ result' = [result EXCEPT ![i] = Empty]
    /\ searched' = [searched EXCEPT ![i] = << >>]
    /\ pending' = [pending EXCEPT ![i] = NoPending]
    /\ UNCHANGED <<demo, slots, bpc, lastCall, builder, app, cards>>

\* app.invoke(initial_state): the script builds initial_state and the run starts;
\* in the web app the run starts with the submitted form's initial_state, once
\* the progress loop has marked every card Done
Invoke(i) ==
    /\ app.ok
    /\ status[i] /= "running"
    /\ MayInvoke(i)
    /\ \E s0 \in InvokeArguments(i) :
        LET lf == ListFields(demo) \cap DOMAIN s0
            hp == [o \in Objs |-> IF \E f \in lf : o = InitObj(i, f)
                                  THEN s0[o[2]] ELSE heap[o]]
            al == [alias EXCEPT ![i] = lf]
        IN /\ heap' = hp
           /\ alias' = al
           /\ init0' = [init0 EXCEPT ![i] = s0]
           /\ state' = Sync([state EXCEPT ![i] = s0], al, hp)
    /\ status' = [status EXCEPT ![i] = "running"]
    /\ cur' = [cur EXCEPT ![i] = app.entry]
    /\ steps' = [steps EXCEPT ![i] = 0]
    /\ trace' = [trace EXCEPT ![i] = << >>]
    /\ error' = [error EXCEPT ![i] = None]
    /\ errnode' = [errnode EXCEPT ![i] = None]
    /\ lastArg' = [lastArg EXCEPT ![i] = [pre |-> Empty, post |-> Empty]]
    /\ lastUpd' = [lastUpd EXCEPT ![i] = NoUpd]
    /\ routerArg' = [routerArg EXCEPT ![i] = Empty]
    /\ lastLabel' = [lastLabel EXCEPT ![i] = None]
    /\ result' = [result EXCEPT ![i] = Empty]
    /\ searched' = [searched EXCEPT ![i] = << >>]
    /\ pending' = [pending EXCEPT ![i] = NoPending]
    /\ UNCHANGED <<demo, slots, bpc, lastCall, builder, app, cards>>

\* the invocation ends with an error: the state accumulated so far is dropped
Abort(i, e, k) ==
    /\ status' = [status EXCEPT ![i] = "failed"]
    /\ error' = [error EXCEPT ![i] = e]
    /\ errnode' = [errnode EXCEPT ![i] = k]
    /\ cur' = [cur EXCEPT ![i] = None]

\* one turn of the executor's loop at a registered node: call the step function,
\* merge, route, count
Step(i) ==
    /\ status[i] = "running"
    /\ ~AtTerminal(i)
    /\ LET k == cur[i]
           fn == NodeFn(app, k)
       IN \E x \in Answers(fn, state[i]) :
          LET r == StepFn(fn, state[i], x)
              touched == InPlace(state[i], r.arg)
              merged == Merge(touched, r.upd)
              al == [alias EXCEPT ![i] = @ \ {f \in DOMAIN r.upd : f \notin r.same}]
              hp == [o \in Objs |->
                       IF \E f \in alias[i] : o = InitObj(i, f) /\ f \in DOMAIN r.arg
                       THEN r.arg[o[2]] ELSE heap[o]]
              nx == NextNode(app, k, merged)
          IN /\ trace' = [trace EXCEPT ![i] = Append(@, k)]
             /\ searched' = [searched EXCEPT ![i] = @ \o AskedBy(fn, state[i], x)]
             /\ lastArg' = [lastArg EXCEPT ![i] = [pre |-> state[i], post |-> r.arg]]
             /\ IF r.raised \/ nx.raised
                THEN /\ Abort(i, "InvocationError", k)
                     /\ lastLabel' = [lastLabel EXCEPT ![i] =
                                        IF r.raised THEN @ ELSE RouterRaised]
                     /\ UNCHANGED <<state, alias, heap, steps, lastUpd, routerArg>>
                ELSE /\ heap' = hp
                     /\ alias' = al
                     /\ state' = Sync([state EXCEPT ![i] = merged], al, hp)
                     /\ lastUpd' = [lastUpd EXCEPT ![i] = r.upd]
                     /\ routerArg' = [routerArg EXCEPT ![i] =
                                        IF HasFixed(app, k) THEN @ ELSE merged]
                     /\ lastLabel' = [lastLabel EXCEPT ![i] =
                                        IF HasFixed(app, k) THEN @ ELSE nx.label]
                     /\ steps' = [steps EXCEPT ![i] = @ + 1]
                     /\ IF ~nx.ok THEN Abort(i, "UnroutableLabelError", k)
                        ELSE IF ExceedsCeiling(steps[i] + 1)
                             THEN Abort(i, "StepLimitExceededError", k)
                        ELSE /\ cur' = [cur EXCEPT ![i] = nx.to]
                             /\ UNCHANGED <<status, error, errnode>>
    /\ UNCHANGED <<demo, slots, bpc, lastCall, builder, app, init0, result, cards, pending>>

\* the current node is the terminal marker: return the current state
\* on return the graph's entry point is left at the node executed last
FinishMovesEntry(i) ==
    /\ status[i] = "running"
    /\ AtTerminal(i)
    /\ status' = [status EXCEPT ![i] = "done"]
    /\ result' = [result EXCEPT ![i] = state[i]]
    /\ app' = [app EXCEPT !.entry = trace[i][Len(trace[i])]]
    /\ UNCHANGED <<demo, slots, bpc, lastCall, builder, cur, state, alias, heap, init0, steps, trace,
                   error, errnode, lastArg, lastUpd, routerArg, lastLabel, searched, cards,
                   pending>>

Finish(i) ==
    /\ status[i] = "running"
    /\ AtTerminal(i)
    /\ status' = [status EXCEPT ![i] = "done"]
    /\ result' = [result EXCEPT ![i] = state[i]]
    /\ UNCHANGED <<demo, slots, bpc, lastCall, builder, app, cur, state, alias, heap, init0, steps, trace,
                   error, errnode, lastArg, lastUpd, routerArg, lastLabel, searched, cards,
                   pending>>

Next ==
    \/ BuildStep
    \/ BuildAny
    \/ Compile
    \/ \E i \in Invs : Submit(i)
    \/ \E i \in Invs : ProgressActive(i)
    \/ \E i \in Invs : ProgressDone(i)
    \/ \E i \in Invs : Invoke(i)
    \/ \E i \in Invs : Step(i)
    \/ \E i \in Invs : Finish(i)

Spec == Init /\ [][Next]_vars

\* the executor's loop keeps turning: a started invocation is run to its end
FairSpec == Spec /\ \A i \in Invs : WF_vars(Step(i)) /\ WF_vars(Finish(i))

----------------------------------------------------------------------------
(* Shorthands of the properties *)

Started(i) == status[i] /= "idle"

Executed(i) == trace[i] /= << >>

LastNode(i) == trace[i][Len(trace[i])]

\* the last step function call returned (its update was merged)
Merged(i) == Executed(i) /\ error[i] /= "InvocationError"

\* the last node executed has a conditional edge group, and its router was called
Routed(i) == Merged(i) /\ HasCond(app, LastNode(i))

Visits(i, k) == Cardinality({n \in 1..Len(trace[i]) : trace[i][n] = k})

----------------------------------------------------------------------------
\* C1: merge-before-route. Whenever a node with a conditional edge group has
\* finished, the state its router was called with holds every field of the node's
\* partial update at the update's value; in loops_demo every router call follows
\* an evaluate visit and sees the quality_score that visit returned.
C1_MergeBeforeRoute ==
    \A i \in Invs :
        Routed(i) =>
            /\ \A f \in DOMAIN lastUpd[i] :
                  f \in DOMAIN routerArg[i] /\ routerArg[i][f] = lastUpd[i][f]
            /\ \A f \in (DOMAIN routerArg[i]) \ (DOMAIN lastUpd[i]) :
                  f \notin ListFields(demo) => routerArg[i][f] = lastArg[i].pre[f]
            /\ demo = "loops_demo" =>
                  /\ LastNode(i) = "evaluate"
                  /\ "quality_score" \in DOMAIN lastUpd[i]
                  /\ routerArg[i].quality_score = lastUpd[i].quality_score
                  /\ lastLabel[i] = should_continue(routerArg[i])

\* an evaluate visit raised the score from below the threshold to 0.9 and the
\* router, seeing 0.9, left the loop although max_iterations was not reached
C1_Witness ==
    \E i \in Invs :
        /\ demo = "loops_demo" /\ Routed(i)
        /\ lastArg[i].pre.quality_score = 6
        /\ lastUpd[i].quality_score = 9
        /\ routerArg[i].quality_score = 9
        /\ routerArg[i].iteration < routerArg[i].max_iterations
        /\ lastLabel[i] = "summarize"

----------------------------------------------------------------------------
\* C2: merge is whole-value last-write-wins per field and touches nothing else.
\* After a node's update is merged every field the update names holds the
\* update's value and every other field holds the value it had before the node
\* ran; checkout returns only status, so items and total are as before it.
C2_MergeLastWriteWins ==
    \A i \in Invs :
        Merged(i) =>
            /\ DOMAIN state[i] = (DOMAIN lastArg[i].pre) \cup (DOMAIN lastUpd[i])
            /\ \A f \in DOMAIN lastUpd[i] : state[i][f] = lastUpd[i][f]
            /\ \A f \in (DOMAIN state[i]) \ (DOMAIN lastUpd[i]) :
                  state[i][f] = lastArg[i].pre[f]
            /\ (demo = "stategraph_demo" /\ LastNode(i) = "checkout") =>
                  /\ state[i].items = lastArg[i].pre.items
                  /\ state[i].total = lastArg[i].pre.total
                  /\ state[i].status = "paid"

\* checkout has run on a cart that holds the two items and a total
C2_Witness ==
    \E i \in Invs :
        /\ demo = "stategraph_demo" /\ Merged(i) /\ LastNode(i) = "checkout"
        /\ state[i].items = <<"pear", "apple", "banana">>
        /\ state[i].total = 18
        /\ lastArg[i].pre.status = "pending"
        /\ state[i].status = "paid"


----------------------------------------------------------------------------
(* Graph shape *)

Max(a, b) == IF a >= b THEN a ELSE b

Succ(g, k) ==
    {e[2] : e \in {d \in g.edges : d[1] = k}}
    \cup UNION {{c.map[l] : l \in DOMAIN c.map} : c \in {d \in g.cond : d.from = k}}

NodeKeys(g) == {n[1] : n \in g.nodes}

RECURSIVE ReachIn(_, _, _)
ReachIn(g, S, n) ==
    IF n = 0 THEN S ELSE ReachIn(g, S \cup UNION {Succ(g, k) : k \in S \ {END}}, n - 1)

\* the keys reachable from k in one or more transitions
ReachFrom(g, k) == ReachIn(g, Succ(g, k), Cardinality(g.nodes))

Acyclic(g) == \A k \in NodeKeys(g) : k \notin ReachFrom(g, k)

\* the graph has a cycle, and its routers end up returning a label bound to the
\* terminal marker or to a node outside the cycle
LoopWithExit(i) ==
    \/ demo \in {"loops_demo", "research_assistant", "streamlit_app"}
    \/ demo = "adhoc" /\ app.ok /\ ~Acyclic(app) /\ app.cond /= {} /\ Started(i)
         /\ init0[i].exit = "stop"

\* node executions of a run whose loop is left at the latest on the iteration limit
LongestRun(i) ==
    CASE demo = "loops_demo" -> 2 * Max(1, Min(init0[i].max_iterations, 3)) + 1
      [] demo \in {"research_assistant", "streamlit_app"} ->
            3 * Max(1, init0[i].max_iterations) + 2
      [] OTHER -> HardCeiling + 1

\* a running invocation has a next move: it stands at the terminal marker and
\* returns, or at a registered node whose step function can be called
CanMove(i) ==
    \/ AtTerminal(i)
    \/ /\ cur[i] \in NodeKeys(app)
       /\ Answers(NodeFn(app, cur[i]), state[i]) /= {}

----------------------------------------------------------------------------
\* C3 as stated: on a graph with a cycle guarded by a router that ends up
\* returning a terminal-bound label, an invocation whose step functions all
\* return reaches the terminal marker (it does not fail).
C3_LoopReachesTerminal ==
    \A i \in Invs :
        (LoopWithExit(i) /\ error[i] /= "InvocationError") => status[i] /= "failed"

\* C3 as amended: on such a graph a running invocation can always take its
\* next move and has executed at most HardCeiling nodes, so it ends; it ends at
\* the terminal marker with its final state unless a step function raised or
\* the step counter passed the hard ceiling first, and the ceiling is passed
\* only by a run that needs more node executions than the ceiling allows.
C3_LoopTerminates ==
    \A i \in Invs :
        LoopWithExit(i) =>
            /\ status[i] = "running" =>
                  /\ CanMove(i)
                  /\ Len(trace[i]) <= HardCeiling
            /\ status[i] = "failed" =>
                  error[i] \in {"InvocationError", "StepLimitExceededError"}
            /\ error[i] = "StepLimitExceededError" =>
                  /\ steps[i] > HardCeiling
                  /\ LongestRun(i) > HardCeiling
            /\ status[i] = "done" =>
                  /\ cur[i] = END
                  /\ result[i] = state[i]
                  /\ Len(trace[i]) <= Min(HardCeiling, LongestRun(i))

\* a loop was taken twice and left through the router, and the run returned
C3_Witness ==
    \E i \in Invs :
        /\ demo = "research_assistant" /\ status[i] = "done"
        /\ Visits(i, "search") = 2
        /\ lastLabel[i] = "report"

----------------------------------------------------------------------------
\* C4: the step counter counts every node execution, and a run whose counter
\* passes the hard ceiling fails with StepLimitExceededError at once, whatever
\* max_iterations the caller's state declares: no run executes more than
\* HardCeiling + 1 nodes.
C4_StepCeiling ==
    \A i \in Invs :
        /\ steps[i] = Len(trace[i]) - (IF error[i] = "InvocationError" THEN 1 ELSE 0)
        /\ steps[i] <= HardCeiling + 1
        /\ steps[i] > HardCeiling =>
              /\ status[i] = "failed"
              /\ error[i] \in {"StepLimitExceededError", "UnroutableLabelError"}
        /\ error[i] = "StepLimitExceededError" =>
              /\ status[i] = "failed"
              /\ steps[i] = HardCeiling + 1

\* a run was cut at the ceiling while its own iteration limit was not reached
C4_Witness ==
    \E i \in Invs :
        /\ demo = "research_assistant"
        /\ error[i] = "StepLimitExceededError"
        /\ state[i].iteration < state[i].max_iterations
        /\ lastLabel[i] = "search"

----------------------------------------------------------------------------
\* the order in which the fixed edges of a linear script chain its nodes
LinearOrder(d) ==
    CASE d = "stateful_graph" -> <<"greet", "farewell", "memory">>
      [] d = "stategraph_demo" -> <<"add_apple", "add_banana", "checkout">>
      [] d = "nodes_demo" -> <<"input", "analyze", "sentiment", "output">>
      [] d = "tools_demo" -> <<"enhance_query", "search_tool", "summarize", "format">>
      [] d = "memory_demo" -> <<"questions", "search", "extract", "synthesize", "display">>

LinearDemos == {"stateful_graph", "stategraph_demo", "nodes_demo", "tools_demo", "memory_demo"}

\* C5: on a graph without cycles a run executes at most as many nodes as the
\* graph has, each at most once, and is never stuck before it ends; in the
\* linear scripts the nodes run in the order of the fixed edges, and a run that
\* returns has executed every node exactly once.
C5_AcyclicRuns ==
    \A i \in Invs :
        /\ (app.ok /\ Acyclic(app)) =>
              /\ Len(trace[i]) <= Cardinality(app.nodes)
              /\ \A k \in NodeKeys(app) : Visits(i, k) <= 1
              /\ status[i] = "running" => ENABLED (Step(i) \/ Finish(i))
        /\ demo \in LinearDemos =>
              /\ app.ok => Acyclic(app)
              /\ IsPrefix(trace[i], LinearOrder(demo))
              /\ status[i] = "done" => trace[i] = LinearOrder(demo)

\* the five nodes of memory_demo have run, in order, and the run has returned
C5_Witness ==
    \E i \in Invs :
        /\ demo = "memory_demo" /\ status[i] = "done"
        /\ Len(trace[i]) = 5
        /\ state[i].operations_count = 4

----------------------------------------------------------------------------
\* C6: a run returns a final state only at the terminal marker. After every
\* move, a run that has
\* returned stands at the terminal marker, reached from a node whose edge or
\* routed label leads there; a run that stands at a registered node or has
\* failed has returned nothing; and at the terminal marker no step function or
\* router is called any more.
C6_TerminalOnly ==
    [][\A i \in Invs :
        /\ status'[i] = "done" =>
              /\ cur'[i] = END
              /\ result'[i] = state'[i]
              /\ trace'[i] /= <<>>
              /\ LET k == trace'[i][Len(trace'[i])]
                 IN IF HasFixed(app', k)
                    THEN FixedTarget(app', k) = END
                    ELSE CondOf(app', k).map[lastLabel'[i]] = END
        /\ status'[i] /= "done" => result'[i] = Empty
        /\ (status[i] = "running" /\ cur[i] = END) =>
              /\ trace'[i] = trace[i]
              /\ steps'[i] = steps[i]
              /\ lastLabel'[i] = lastLabel[i]
              /\ state'[i] = state[i]]_vars

\* an email was routed to the spam node, whose edge leads to the terminal
\* marker, and the run returned
C6_Witness ==
    \E i \in Invs :
        /\ demo = "edges_routing_demo" /\ status[i] = "done"
        /\ trace[i] = <<"analyze", "spam">>
        /\ result[i].category = "spam"

----------------------------------------------------------------------------
\* the move from this state to the next is not one of invocation i
NotOwnMove(i) == trace'[i] = trace[i] /\ status'[i] = status[i]

\* invocation i has executed a node whose update was merged
OwnStep(i) == trace'[i] = Append(trace[i], cur[i]) /\ status'[i] = "running"

\* C7: isolation. While two sessions of the web app run the one compiled graph
\* in any interleaving, a move of one leaves the other's state, step counter,
\* position, result and caller-side initial state as they were, and every node
\* execution of a session yields the state that its step function computes
\* from that session's own state alone.
C7_Isolation ==
    [][\A i \in Invs :
        /\ NotOwnMove(i) =>
              /\ state'[i] = state[i]
              /\ steps'[i] = steps[i]
              /\ cur'[i] = cur[i]
              /\ result'[i] = result[i]
              /\ CallerState(i)' = CallerState(i)
        /\ (Concurrent(demo) /\ OwnStep(i)) =>
              /\ steps'[i] = steps[i] + 1
              /\ \E x \in Answers(NodeFn(app, cur[i]), state[i]) :
                    LET r == StepFn(NodeFn(app, cur[i]), state[i], x)
                    IN /\ ~r.raised
                       /\ state'[i] = Merge(InPlace(state[i], r.arg), r.upd)]_vars

\* both sessions are in the middle of their runs, on different topics: one
\* holds a search result and no finding yet, the other has reached its findings
C7_Witness ==
    /\ demo = "streamlit_app"
    /\ status[1] = "running" /\ status[2] = "running"
    /\ init0[1].topic /= init0[2].topic
    /\ Len(state[1].search_results) = 1 /\ state[1].key_findings = << >>
    /\ Len(state[2].key_findings) = 4
    /\ steps[1] /= steps[2]

----------------------------------------------------------------------------
\* C8 as stated: the State object a step function was given is the same after
\* the call as before it.
C8_ArgumentUntouched ==
    \A i \in Invs : Executed(i) => lastArg[i].post = lastArg[i].pre

----------------------------------------------------------------------------
\* C9 as stated: once invoke has been called, the caller's initial_state holds
\* in every field the value it was given.
C9_InitialStateUntouched ==
    \A i \in Invs : Started(i) => CallerState(i) = init0[i]

----------------------------------------------------------------------------
HasStartEdge(b) == \E e \in b.edges : e[1] = START

Compiled == app /= NoApp

\* C10 as stated: compile fails with NoEntryPointError on every builder on
\* which set_entry_point was never called, the scripts that wire their first
\* node by add_edge(START, node) included.
C10_NeedsSetEntryPoint ==
    (demo \in Demos /\ Compiled /\ builder.entry = None) => app.err = "NoEntryPointError"

\* C10 as amended: compile fails with NoEntryPointError exactly when the
\* builder has neither an entry point set by set_entry_point nor an edge from
\* START; the scripts that wire their first node by add_edge(START, node)
\* compile, and their runs start at that node.
C10_NoEntryPoint ==
    /\ Compiled =>
          /\ (app.err = "NoEntryPointError") <=>
                (builder.entry = None /\ ~HasStartEdge(builder))
          /\ demo \in Demos => app.ok
          /\ (app.ok /\ builder.entry = None) =>
                <<START, app.entry>> \in builder.edges
          /\ (app.ok /\ builder.entry /= None) => app.entry = builder.entry
    /\ \A i \in Invs : Executed(i) => trace[i][1] = app.entry

\* a builder with a node and an edge, but neither set_entry_point nor an edge
\* from START, was compiled
C10_Witness ==
    /\ demo = "adhoc"
    /\ builder.nodes /= {} /\ builder.edges /= {}
    /\ builder.entry = None /\ ~HasStartEdge(builder)
    /\ app.err = "NoEntryPointError"

----------------------------------------------------------------------------
\* the builder call made last was add_edge
EdgeCalled == lastCall.op = "add_edge"

\* C11 as stated, on the scripts: an add_edge call whose from_key, or whose
\* to_key other than the terminal marker, was never registered by add_node
\* fails with UnknownNodeError; a from_key of START is no exception.
C11_OnlyTerminalExempt ==
    (demo \in Demos /\ EdgeCalled /\ (lastCall.a \notin Keys(builder)
                      \/ lastCall.f \notin Keys(builder) \cup {END}))
        => builder.err = "UnknownNodeError"

\* C11 as amended: an add_edge call fails with UnknownNodeError, and registers
\* nothing, exactly when its from_key is neither registered nor START or its
\* to_key is neither registered nor the terminal marker; every edge a builder
\* holds joins such keys, and the add_edge calls of the scripts, those from
\* START included, all succeed.
C11_UnknownNode ==
    /\ EdgeCalled =>
          LET unknown == \/ lastCall.a \notin Keys(builder) \cup {START}
                         \/ lastCall.f \notin Keys(builder) \cup {END}
          IN /\ unknown => /\ builder.err = "UnknownNodeError"
                           /\ <<lastCall.a, lastCall.f>> \notin builder.edges
             /\ builder.err = "UnknownNodeError" => unknown
             /\ builder.err = None => <<lastCall.a, lastCall.f>> \in builder.edges
    /\ \A e \in builder.edges :
          /\ e[1] \in Keys(builder) \cup {START}
          /\ e[2] \in Keys(builder) \cup {END}
    /\ demo \in Demos => builder.err = None

\* with A and B registered, an edge from A to the unregistered key C was refused
C11_Witness ==
    /\ demo = "adhoc"
    /\ Keys(builder) = {"A", "B"}
    /\ lastCall = AddEdge("A", "C")
    /\ builder.err = "UnknownNodeError"
    /\ builder.edges = {<<START, "A">>}

----------------------------------------------------------------------------
\* the call made last, naming registered keys only, gave a node that has a
\* conditional edge group a fixed edge, or a node that has a fixed edge a
\* conditional edge group
GivenBoth ==
    \/ /\ lastCall.op = "add_edge"
       /\ lastCall.f \in Keys(builder) \cup {END}
       /\ \E c \in builder.cond : c.from = lastCall.a
    \/ /\ lastCall.op = "add_conditional_edges"
       /\ \A l \in DOMAIN lastCall.m : lastCall.m[l] \in Keys(builder) \cup {END}
       /\ \E e \in builder.edges : e[1] = lastCall.a

\* the call made last gave a node that has an edge group of one kind an edge
\* group of the other kind, whatever keys the call names as targets
GivenBothAny ==
    \/ /\ lastCall.op = "add_edge"
       /\ \E c \in builder.cond : c.from = lastCall.a
    \/ /\ lastCall.op = "add_conditional_edges"
       /\ \E e \in builder.edges : e[1] = lastCall.a

\* C12 as stated: compile() fails with ConflictingEdgeError on every builder
\* one of whose nodes has been given both a fixed edge and a conditional edge
\* group, in either order of registration.
C12_CompileAlwaysConflict ==
    (GivenBothAny /\ Compiled) => app.err = "ConflictingEdgeError"

\* C12 as amended: once a call that names registered keys only has given a
\* node its second kind of outgoing edge group, in either order, the builder is
\* in error with ConflictingEdgeError and compile() produces no Compiled Graph;
\* compile() fails with ConflictingEdgeError exactly when the builder has an
\* entry point, and with NoEntryPointError when it has none. No Compiled Graph
\* has a node with both kinds, and no script gives a node both.
C12_BothKindsConflict ==
    /\ GivenBoth =>
          /\ builder.err = "ConflictingEdgeError"
          /\ Compiled =>
                /\ ~app.ok
                /\ EntryOf(builder) /= None => app.err = "ConflictingEdgeError"
                /\ EntryOf(builder) = None => app.err = "NoEntryPointError"
    /\ app.ok => \A k \in Keys(builder) : ~(HasFixed(app, k) /\ HasCond(app, k))
    /\ demo \in Demos => ~GivenBoth

\* B had its conditional edge group, was then given a fixed edge to the
\* terminal marker, and compile() failed
C12_Witness ==
    /\ demo = "adhoc"
    /\ lastCall = AddEdge("B", END)
    /\ \E c \in builder.cond : c.from = "B"
    /\ EntryOf(builder) = "A"
    /\ app.err = "ConflictingEdgeError"

----------------------------------------------------------------------------
\* the step from this state to the next is an add_node call
NodeCall == bpc' = bpc + 1 /\ lastCall'.op = "add_node"

\* C13: an add_node call fails with DuplicateNodeError exactly when its key is
\* already registered, and then leaves the registry as it was; otherwise it
\* adds the key with its step function. So in every builder and every
\* Compiled Graph a key has one step function, and no script registers a key
\* twice.
C13_DuplicateNode ==
    [][/\ NodeCall =>
             LET dup == lastCall'.a \in Keys(builder)
             IN /\ dup <=> builder'.err = "DuplicateNodeError"
                /\ dup => builder'.nodes = builder.nodes
                /\ ~dup => builder'.nodes = builder.nodes \cup {<<lastCall'.a, lastCall'.f>>}
       /\ \A n, m \in builder'.nodes : n[1] = m[1] => n = m
       /\ \A n, m \in app'.nodes : n[1] = m[1] => n = m
       /\ builder'.err = "DuplicateNodeError" => lastCall'.op = "add_node"
       /\ demo \in Demos => builder'.err /= "DuplicateNodeError"]_vars

\* A was registered with inc_x; registering it again with keep_x was refused
C13_Witness ==
    /\ demo = "adhoc"
    /\ lastCall = AddNode("A", "keep_x")
    /\ builder.err = "DuplicateNodeError"
    /\ <<"A", "inc_x">> \in builder.nodes
    /\ <<"A", "keep_x">> \notin builder.nodes

----------------------------------------------------------------------------
\* the routing of the node executed last, as it stands after the move
RoutedAsMapped(i) ==
    LET m == CondOf(app, LastNode(i)).map
    IN /\ lastLabel[i] \notin DOMAIN m =>
             /\ status[i] = "failed"
             /\ error[i] = "UnroutableLabelError"
             /\ errnode[i] = LastNode(i)
       /\ (lastLabel[i] \in DOMAIN m /\ status[i] = "running") =>
             cur[i] = m[lastLabel[i]]
       /\ (demo = "research_assistant" /\ status[i] = "running") =>
             /\ LastNode(i) = "analyze"
             /\ lastLabel[i] = "search" => cur[i] = "questions"
             /\ lastLabel[i] = "report" => cur[i] = "report"

\* C14: after a router has returned a label that its group's mapping does not
\* hold, the invocation has failed with UnroutableLabelError at that node, and
\* it executes no further node; after a label the mapping holds, the next node
\* is the mapping's target for it: in the research assistant "search" leads to
\* the node "questions" and "report" to the node "report". Only an unmapped
\* label gives UnroutableLabelError.
C14_UnroutableLabel ==
    [][\A i \in Invs :
        /\ Routed(i)' => RoutedAsMapped(i)'
        /\ error'[i] = "UnroutableLabelError" =>
              /\ Routed(i)'
              /\ lastLabel'[i] \notin DOMAIN CondOf(app', LastNode(i)').map
        /\ (error[i] = "UnroutableLabelError" /\ status'[i] = "failed") =>
              /\ trace'[i] = trace[i]
              /\ state'[i] = state[i]
              /\ lastLabel'[i] = lastLabel[i]]_vars

\* the router at B returned "bogus", which the mapping does not hold, and the
\* run failed there after two node executions
C14_Witness ==
    \E i \in Invs :
        /\ demo = "adhoc"
        /\ error[i] = "UnroutableLabelError"
        /\ lastLabel[i] = "bogus"
        /\ errnode[i] = "B"
        /\ trace[i] = <<"A", "B">>
        /\ result[i] = Empty

----------------------------------------------------------------------------
\* invocation i fails with InvocationError in the step from this state to the next
Raises(i) == error'[i] = "InvocationError" /\ error[i] /= "InvocationError"

\* C15: an invocation in which a step function or a router raises fails at
\* once with InvocationError carrying the key of the node it was at: the node
\* is the last of the trace, nothing of that execution is merged or counted,
\* nothing is returned to the caller, and no node or router runs afterwards.
\* In tools_demo a run returns only if the model calls of enhance_query and
\* summarize answered.
C15_InvocationError ==
    [][\A i \in Invs :
        /\ Raises(i) =>
              /\ status[i] = "running"
              /\ trace'[i] = Append(trace[i], cur[i])
              /\ errnode'[i] = cur[i]
              /\ state'[i] = state[i]
              /\ steps'[i] = steps[i]
        /\ error'[i] = "InvocationError" =>
              /\ status'[i] = "failed"
              /\ result'[i] = Empty
              /\ errnode'[i] = trace'[i][Len(trace'[i])]
        /\ (error[i] = "InvocationError" /\ status'[i] = "failed") =>
              /\ trace'[i] = trace[i]
              /\ lastLabel'[i] = lastLabel[i]
              /\ state'[i] = state[i]
        /\ (demo = "tools_demo" /\ status'[i] = "done") =>
              /\ result'[i].summary \in {x.text : x \in {y \in LLMText : ~y.raise}}
              /\ Len(trace'[i]) = 4]_vars

\* the model call of summarize raised: the run failed at the third node and
\* returned nothing
C15_Witness ==
    \E i \in Invs :
        /\ demo = "tools_demo"
        /\ error[i] = "InvocationError"
        /\ errnode[i] = "summarize"
        /\ trace[i] = <<"enhance_query", "search_tool", "summarize">>
        /\ steps[i] = 2
        /\ result[i] = Empty

----------------------------------------------------------------------------
\* invocation i starts in the step from this state to the next
Starts(i) == status[i] /= "running" /\ status'[i] = "running"

\* invocation i is as a first invocation with the same initial_state would be
Fresh(i) ==
    /\ init0[i] \in Arguments(i)
    /\ state[i] = init0[i]
    /\ CallerState(i) = init0[i]
    /\ cur[i] = app.entry
    /\ steps[i] = 0
    /\ trace[i] = << >>
    /\ error[i] = None /\ errnode[i] = None
    /\ lastUpd[i] = NoUpd /\ lastLabel[i] = None /\ routerArg[i] = Empty
    /\ result[i] = Empty

\* C16: a failure ends only its own invocation. A failing step leaves the
\* Compiled Graph and every other invocation as they were; an invocation that
\* starts, whether after a failed one or not, starts at the entry point of
\* the same Compiled Graph with the state the caller passed, a step counter of
\* zero and nothing left of earlier runs; and each of its node executions
\* yields the state its step function computes from its own state alone.
C16_FailureIsLocal ==
    [][\A i \in Invs :
        /\ status'[i] = "failed" => app' = app
        /\ (status[i] = "running" /\ status'[i] = "failed") =>
              /\ \A j \in Invs \ {i} :
                    /\ state'[j] = state[j]
                    /\ status'[j] = status[j]
                    /\ steps'[j] = steps[j]
                    /\ result'[j] = result[j]
        /\ Starts(i) =>
              /\ app.ok /\ app' = app
              /\ Fresh(i)'
        /\ (Sequential(demo) /\ OwnStep(i)) =>
              /\ steps'[i] = steps[i] + 1
              /\ \E x \in Answers(NodeFn(app, cur[i]), state[i]) :
                    LET r == StepFn(NodeFn(app, cur[i]), state[i], x)
                    IN /\ ~r.raised
                       /\ state'[i] = Merge(InPlace(state[i], r.arg), r.upd)]_vars

\* the first iteration of tools_demo's test loop failed in summarize; the next
\* one ran its four nodes and returned
C16_Witness ==
    /\ demo = "tools_demo"
    /\ status[1] = "failed"
    /\ error[1] = "InvocationError" /\ errnode[1] = "summarize"
    /\ status[2] = "done"
    /\ steps[2] = 4
    /\ result[2].summary = "answer"

----------------------------------------------------------------------------
\* the validation rules: no builder call was refused, an entry point is given,
\* every key referred to is registered, every node has one outgoing edge group
WellFormed(b) ==
    /\ b.err = None
    /\ \/ b.entry /= None
       \/ \E e \in b.edges : e[1] = START
    /\ \A e \in b.edges : e[1] \in Keys(b) \cup {START} /\ e[2] \in Keys(b) \cup {END}
    /\ \A c \in b.cond :
          /\ c.from \in Keys(b)
          /\ \A l \in DOMAIN c.map : c.map[l] \in Keys(b) \cup {END}
    /\ b.entry /= None => b.entry \in Keys(b)
    /\ \A k \in Keys(b) :
          Cardinality({e \in b.edges : e[1] = k}) + Cardinality({c \in b.cond : c.from = k}) = 1

\* C17: compile() produces a Compiled Graph exactly when the builder's state
\* meets every validation rule; otherwise it fails, nothing is produced, and no
\* invocation ever starts: no step function or router of a malformed graph is
\* called.
C17_MalformedNeverRuns ==
    /\ Compiled => (app.ok <=> WellFormed(builder))
    /\ Compiled /\ ~app.ok =>
          /\ app.err /= None
          /\ app.nodes = {} /\ app.edges = {} /\ app.cond = {} /\ app.entry = None
    /\ \A i \in Invs :
          (Started(i) \/ Executed(i) \/ lastLabel[i] /= None) =>
              /\ app.ok
              /\ WellFormed(builder)

\* A and B are registered and wired to each other's key, but B has no outgoing
\* edge group: compile() failed and nothing has run
C17_Witness ==
    /\ demo = "adhoc"
    /\ Keys(builder) = {"A", "B"}
    /\ builder.edges = {<<START, "A">>, <<"A", "B">>}
    /\ builder.cond = {}
    /\ app.err = "GraphValidationError"
    /\ \A i \in Invs : status[i] = "idle" /\ trace[i] = << >>

----------------------------------------------------------------------------
\* C18: once compile() has been called, no step changes the Compiled Graph or
\* the builder it was made from: through every invocation, returned or failed,
\* the node registry, edge table and entry point are the ones compile()
\* produced, and every invocation starts at that entry point.
C18_CompiledImmutable ==
    [][/\ Compiled => (app' = app /\ builder' = builder)
       /\ app'.ok =>
             /\ app' = compile(builder')
             /\ app'.nodes = builder'.nodes
             /\ app'.cond = builder'.cond
             /\ app'.edges = {e \in builder'.edges : e[1] /= START}
             /\ app'.entry = EntryOf(builder')
       /\ \A i \in Invs : Starts(i) => cur'[i] = EntryOf(builder)]_vars

\* the test loop of nodes_demo has invoked the one Compiled Graph twice, and
\* the second run returned after its four nodes
C18_Witness ==
    /\ demo = "nodes_demo"
    /\ status[1] = "done" /\ status[2] = "done"
    /\ trace[2] = <<"input", "analyze", "sentiment", "output">>
    /\ init0[1] /= init0[2]
    /\ app = compile(builder)

----------------------------------------------------------------------------
FixedFrom(g, k) == {e \in g.edges : e[1] = k}

CondFrom(g, k) == {c \in g.cond : c.from = k}

\* C19: in every Compiled Graph each node has exactly one outgoing edge group,
\* one fixed edge or one conditional edge group, never both and never none.
\* The scripts compile; in edges_routing_demo and the research assistant the
\* routing node has its conditional group only, and the nodes that end the run
\* have a fixed edge to the terminal marker.
C19_OneOutgoingGroup ==
    /\ app.ok =>
          \A k \in NodeKeys(app) :
              /\ Cardinality(FixedFrom(app, k)) + Cardinality(CondFrom(app, k)) = 1
              /\ ~(HasFixed(app, k) /\ HasCond(app, k))
              /\ HasFixed(app, k) \/ HasCond(app, k)
    /\ (Compiled /\ demo \in {"edges_routing_demo", "research_assistant"}) =>
          /\ app.ok
          /\ Cardinality(CondFrom(app, "analyze")) = 1 /\ FixedFrom(app, "analyze") = {}
    /\ (Compiled /\ demo = "edges_routing_demo") =>
          \A k \in {"spam", "important", "normal"} : FixedFrom(app, k) = {<<k, END>>}
    /\ (Compiled /\ demo = "research_assistant") =>
          FixedFrom(app, "report") = {<<"report", END>>}

\* the research assistant's graph is compiled: five nodes, four fixed edges
\* and the conditional group at analyze
C19_Witness ==
    /\ demo = "research_assistant"
    /\ app.ok
    /\ Cardinality(app.nodes) = 5
    /\ Cardinality(app.edges) = 4
    /\ Cardinality(app.cond) = 1
    /\ HasCond(app, "analyze") /\ ~HasFixed(app, "analyze")

----------------------------------------------------------------------------
\* the fields of the state type the script hands to StateGraph(...)
Schema(d) ==
    CASE d = "stateful_graph" -> {"name", "greeting", "farewell"}
      [] d = "stategraph_demo" -> {"items", "total", "status"}
      [] d = "nodes_demo" -> {"text", "word_count", "sentiment", "output"}
      [] d = "edges_routing_demo" -> {"email_text", "spam_score", "category", "priority"}
      [] d = "loops_demo" -> {"query", "search_results", "quality_score", "iteration",
                              "max_iterations", "final_answer"}
      [] d = "tools_demo" -> {"query", "enhanced_query", "search_results", "summary"}
      [] d = "memory_demo" -> {"topic", "questions", "search_results", "key_points",
                               "knowledge_base", "operations_count"}
      [] d = "research_assistant" ->
            {"topic", "research_questions", "search_queries", "search_results",
             "key_findings", "iteration", "max_iterations", "quality_score",
             "final_report", "status"}
      [] d = "streamlit_app" ->
            {"topic", "research_questions", "search_queries", "search_results",
             "key_findings", "iteration", "max_iterations", "quality_score",
             "final_report", "status", "current_node"}
      [] d = "adhoc" -> {"x", "limit", "exit"}
      [] d = "loop_scenario" -> {"iteration", "quality", "given"}

\* C20: every partial update a step function returns names only fields of the
\* state type declared for the graph, so the initial state, the state after any
\* number of node executions and the state returned hold declared fields only.
C20_SchemaFields ==
    \A i \in Invs :
        /\ DOMAIN lastUpd[i] \subseteq Schema(demo)
        /\ DOMAIN init0[i] \subseteq Schema(demo)
        /\ DOMAIN state[i] \subseteq Schema(demo)
        /\ DOMAIN routerArg[i] \subseteq Schema(demo)
        /\ DOMAIN result[i] \subseteq Schema(demo)
        /\ Merged(i) => DOMAIN state[i] = DOMAIN lastArg[i].pre \cup DOMAIN lastUpd[i]

\* format_output_node returned the whole state, every declared field of
\* tools_demo and no other, and the run returned it
C20_Witness ==
    \E i \in Invs :
        /\ demo = "tools_demo" /\ status[i] = "done"
        /\ LastNode(i) = "format"
        /\ DOMAIN lastUpd[i] = Schema("tools_demo")
        /\ DOMAIN result[i] = Schema("tools_demo")

----------------------------------------------------------------------------
\* the graph of the scenario: A and B each add 1 to x, entry A, A -> B -> END
ChainAB ==
    /\ demo = "adhoc"
    /\ app.ok
    /\ app.nodes = {<<"A", "inc_x">>, <<"B", "inc_x">>}
    /\ app.edges = {<<"A", "B">>, <<"B", END>>}
    /\ app.cond = {}
    /\ app.entry = "A"

\* C21: in a linear chain every node computes from the state the previous
\* node's merge left. The chain A -> B, each adding 1 to x, returns x = 2 from
\* x = 0, with x = 1 between the two; stategraph_demo returns the initial total
\* plus 5 plus 3 and the initial items followed by apple, then banana.
C21_ChainAccumulates ==
    \A i \in Invs :
        /\ (ChainAB /\ Started(i)) =>
              /\ state[i].x = init0[i].x + Len(trace[i])
              /\ status[i] = "done" =>
                    /\ trace[i] = <<"A", "B">>
                    /\ result[i].x = 2
        /\ (demo = "stategraph_demo" /\ Started(i)) =>
              /\ trace[i] = <<"add_apple">> =>
                    /\ state[i].total = init0[i].total + 5
                    /\ state[i].items = Append(init0[i].items, "apple")
              /\ Len(trace[i]) >= 2 =>
                    /\ state[i].total = init0[i].total + 5 + 3
                    /\ state[i].items = init0[i].items \o <<"apple", "banana">>
              /\ status[i] = "done" =>
                    /\ result[i].total = init0[i].total + 5 + 3
                    /\ result[i].items = init0[i].items \o <<"apple", "banana">>

\* the chain A -> B was invoked with x = 0 and returned x = 2
C21_Witness ==
    \E i \in Invs :
        /\ ChainAB
        /\ status[i] = "done"
        /\ init0[i].x = 0
        /\ result[i].x = 2

----------------------------------------------------------------------------
\* the quality loops_demo's evaluate_node finds for query q on iteration n
ScoreAt(q, n) ==
    LET found == loops_search_node(("query" :> q) @@ ("iteration" :> n - 1), [raise |-> FALSE])
    IN evaluate_node(found.upd, [raise |-> FALSE]).upd.quality_score

\* the first iteration at which loops_demo's router leaves the loop
FirstExit(q, m) ==
    CHOOSE n \in 1..3 :
        /\ n >= m \/ ScoreAt(q, n) >= 8
        /\ \A k \in 1..(n - 1) : ~(k >= m \/ ScoreAt(q, k) >= 8)

\* C22: in the loop scenario, when the quality given for iteration 1 is below
\* 0.8 and the one given for iteration 2 is at least 0.8, the invocation ends
\* with iteration = 2: search ran exactly twice and summarize followed the
\* second evaluation. In general iteration counts the runs of search, and in
\* loops_demo the invocation ends with the first iteration at which the
\* limit or the quality threshold is met.
C22_LoopStopsAtThreshold ==
    \A i \in Invs :
        /\ (demo = "loop_scenario" /\ Started(i)) =>
              /\ state[i].iteration = Visits(i, "search")
              /\ (status[i] = "done" /\ init0[i].given[1] < 8 /\ init0[i].given[2] >= 8) =>
                    /\ result[i].iteration = 2
                    /\ trace[i] = <<"search", "evaluate", "search", "evaluate", "summarize">>
        /\ (demo = "loops_demo" /\ Started(i)) =>
              /\ state[i].iteration = Visits(i, "search")
              /\ status[i] = "done" =>
                    /\ result[i].iteration = FirstExit(init0[i].query, init0[i].max_iterations)
                    /\ Visits(i, "summarize") = 1

\* the loop scenario ended with iteration = 2 after a first quality of 0.3 and
\* a second of 0.8
C22_Witness ==
    \E i \in Invs :
        /\ demo = "loop_scenario"
        /\ status[i] = "done"
        /\ init0[i].given[1] = 3
        /\ init0[i].given[2] = 8
        /\ result[i].quality = 8
        /\ result[i].iteration = 2

----------------------------------------------------------------------------
\* the web app's router answered "report" with the iteration limit not reached
\* and fewer than ten findings: on quality grounds
OnQualityGrounds(i) ==
    /\ routerArg[i].iteration < routerArg[i].max_iterations
    /\ Len(routerArg[i].key_findings) < 10

\* C23: in the web app the router stops the research on quality grounds exactly
\* when quality_score is at least the Quality Threshold configured in the
\* sidebar, whichever threshold the session was configured with.
C23_ThresholdStopsResearch ==
    \A i \in Invs : \A th \in QualityThresholds :
        (/\ demo = "streamlit_app"
         /\ Routed(i)
         /\ LastNode(i) = "analyze"
         /\ init0[i] \in {StreamlitSubmit(init0[i].topic, init0[i].max_iterations, th)}
         /\ OnQualityGrounds(i))
        => (lastLabel[i] = "report" <=> routerArg[i].quality_score >= th)

----------------------------------------------------------------------------
\* C24: in the web app, for a configured max_iterations of at least 1 and an
\* initial iteration of 0, the search node executes at most max_iterations
\* times in one invocation, the iteration field counts its completed runs, and
\* the returned iteration is at most max_iterations.
C24_SearchAtMostMaxIterations ==
    \A i \in Invs :
        (demo = "streamlit_app" /\ Started(i)
            /\ init0[i].max_iterations >= 1 /\ init0[i].iteration = 0) =>
              /\ Visits(i, "search") <= init0[i].max_iterations
              /\ state[i].iteration <= init0[i].max_iterations
              /\ state[i].max_iterations = init0[i].max_iterations
              /\ state[i].iteration <= Visits(i, "search")
              /\ status[i] = "done" =>
                    /\ result[i].iteration = Visits(i, "search")
                    /\ result[i].iteration <= init0[i].max_iterations

\* a session configured with max_iterations = 5 never met the quality threshold
\* and returned after exactly five runs of the search node, seventeen node
\* executions in all
C24_Witness ==
    \E i \in Invs :
        /\ demo = "streamlit_app"
        /\ status[i] = "done"
        /\ init0[i].max_iterations = 5
        /\ Visits(i, "search") = 5
        /\ Len(trace[i]) = 17
        /\ result[i].iteration = 5
        /\ result[i].quality_score < 8

----------------------------------------------------------------------------
\* the quality scores a router of loops_demo may be shown, in tenths
AnyQuality == 0..10

\* C25: in loops_demo the search/evaluate loop is left after finitely many
\* cycles for every max_iterations, negative and zero included: every run of
\* search adds exactly 1 to iteration, the router answers "summarize" whenever
\* iteration >= max_iterations, whatever the quality score, so search runs at
\* most max(1, max_iterations) times, the run never comes near the step
\* ceiling, and a running invocation can always take its next move.
C25_MaxIterationsEndsLoop ==
    \A i \in Invs :
        (demo = "loops_demo" /\ Started(i)) =>
            LET m == init0[i].max_iterations
            IN /\ (Merged(i) /\ LastNode(i) = "search") =>
                     state[i].iteration = lastArg[i].pre.iteration + 1
               /\ \A q \in AnyQuality :
                     state[i].iteration >= m =>
                        should_continue([state[i] EXCEPT !.quality_score = q]) = "summarize"
               /\ (Routed(i) /\ routerArg[i].iteration >= m) =>
                     /\ lastLabel[i] = "summarize"
                     /\ Visits(i, "summarize") <= 1
                     /\ status[i] = "running" => cur[i] = "summarize"
               /\ Visits(i, "search") <= Max(1, m)
               /\ Len(trace[i]) <= 2 * Max(1, m) + 1
               /\ error[i] /= "StepLimitExceededError"
               /\ status[i] = "running" => CanMove(i)

\* the loop was left at the iteration limit with the quality still below 0.8
C25_Witness ==
    \E i \in Invs :
        /\ demo = "loops_demo"
        /\ status[i] = "done"
        /\ init0[i].max_iterations = 2
        /\ Visits(i, "search") = 2
        /\ result[i].quality_score < 8
        /\ trace[i] = <<"search", "evaluate", "search", "evaluate", "summarize">>

----------------------------------------------------------------------------
\* no entry of the sequence occurs twice
NoRepeat(s) == \A m, n \in 1..Len(s) : s[m] = s[n] => m = n

\* C26: in the research assistant, within one invocation and across all its
\* loop iterations, no question is handed to the search tool more than once.
C26_EachQuestionSearchedOnce ==
    \A i \in Invs :
        (demo \in {"research_assistant", "streamlit_app"} /\ Started(i)) =>
            NoRepeat(searched[i])

----------------------------------------------------------------------------
\* what tools_demo's search node may leave in search_results for a query: the
\* results found, one no-results message, or one error message
SearchResultsFor(query) ==
    {Hits(query, n) : n \in 1..3}
        \cup { << <<"No results found", query, 0>> >>, << <<"Search error", query, 0>> >> }

\* C27: in tools_demo the search tool node never raises, whether the search
\* returns results, returns nothing or raises: no invocation fails at
\* search_tool, the node leaves a non-empty search_results (the results, a
\* single no-results message or a single error message), and the invocation
\* goes on to the summarize node.
C27_SearchFailureHandled ==
    \A i \in Invs :
        (demo = "tools_demo" /\ Started(i)) =>
            /\ errnode[i] /= "search_tool"
            /\ (Executed(i) /\ LastNode(i) = "search_tool") =>
                  /\ Merged(i)
                  /\ DOMAIN lastUpd[i] = {"search_results"}
                  /\ lastUpd[i].search_results \in
                        SearchResultsFor(IF lastArg[i].pre.enhanced_query /= ""
                                         THEN lastArg[i].pre.enhanced_query
                                         ELSE lastArg[i].pre.query)
                  /\ status[i] = "running"
                  /\ cur[i] = "summarize"
            /\ Visits(i, "search_tool") >= 1 =>
                  /\ state[i].search_results /= << >>
                  /\ Len(trace[i]) >= 3 => trace[i][3] = "summarize"

\* the search raised, the node answered with the single error message, and the
\* invocation went on through summarize to its end
C27_Witness ==
    \E i \in Invs :
        /\ demo = "tools_demo"
        /\ status[i] = "done"
        /\ Len(result[i].search_results) = 1
        /\ result[i].search_results[1][1] = "Search error"
        /\ trace[i] = <<"enhance_query", "search_tool", "summarize", "format">>

----------------------------------------------------------------------------
\* memory_demo's list fields
MemoryLists == {"questions", "search_results", "key_points"}

\* C28: in memory_demo, for each of questions, search_results and key_points
\* and every node execution, the field after the node has the field before the
\* node as a prefix: entries are appended, never dropped or reordered; so
\* each field of the state, and of the result, starts with what the initial
\* state held.
C28_ListsOnlyGrow ==
    \A i \in Invs :
        (demo = "memory_demo" /\ Started(i)) =>
            \A f \in MemoryLists :
                /\ Merged(i) => IsPrefix(lastArg[i].pre[f], state[i][f])
                /\ IsPrefix(init0[i][f], state[i][f])
                /\ status[i] = "done" => IsPrefix(init0[i][f], result[i][f])

\* a run that started with one question returned it first in a longer list,
\* with search results and key points accumulated behind it
C28_Witness ==
    \E i \in Invs :
        /\ demo = "memory_demo"
        /\ status[i] = "done"
        /\ init0[i].questions = <<"q0">>
        /\ Len(result[i].questions) >= 2
        /\ result[i].questions[1] = "q0"
        /\ Len(result[i].search_results) >= 2
        /\ result[i].key_points /= << >>

----------------------------------------------------------------------------
\* C29: in the web app a node's status card shows Done only after the node's
\* step function has executed in the session's workflow run, and shows Active
\* only while the run is at that node.
C29_CardsFollowWorkflow ==
    \A i \in Invs :
        (demo = "streamlit_app" /\ cards[i] /= NoCards) =>
            \A n \in DOMAIN cards[i] :
                /\ cards[i][n] = "Done" => Visits(i, n) >= 1
                /\ cards[i][n] = "Active" => (status[i] = "running" /\ cur[i] = n)

----------------------------------------------------------------------------
\* the node the research assistant executes at position p of a run: input, then
\* cycles of questions, search, analyze
CycleNode(p) ==
    IF p = 1 THEN "input"
    ELSE IF (p - 2) % 3 = 0 THEN "questions"
    ELSE IF (p - 2) % 3 = 1 THEN "search"
    ELSE "analyze"

\* C30: in the research assistant the router's label "search" leads back to
\* question generation: after it the run is at questions, and the nodes
\* executed are input followed by cycles of questions, search, analyze in that
\* order, the router being consulted after analyze only, with report last. So
\* one run of questions adds at most 3 research_questions, and iteration is
\* the number of cycles whose search has run: exactly 1 more per cycle.
C30_LoopBackToQuestions ==
    \A i \in Invs :
        (demo = "research_assistant" /\ Started(i)) =>
            /\ (Routed(i) /\ lastLabel[i] = "search" /\ status[i] = "running") =>
                  cur[i] = "questions"
            /\ \A p \in 1..Len(trace[i]) :
                  \/ trace[i][p] = CycleNode(p)
                  \/ /\ trace[i][p] = "report"
                     /\ p = Len(trace[i])
                     /\ p > 1 /\ trace[i][p - 1] = "analyze"
            /\ Routed(i) => LastNode(i) = "analyze"
            /\ (Merged(i) /\ LastNode(i) = "questions") =>
                  /\ IsPrefix(lastArg[i].pre.research_questions, state[i].research_questions)
                  /\ Len(state[i].research_questions)
                        <= Len(lastArg[i].pre.research_questions) + 3
            /\ Len(state[i].research_questions) <= 3 * Visits(i, "questions")
            /\ state[i].iteration = Visits(i, "search")
            /\ (Merged(i) /\ LastNode(i) = "analyze") =>
                  state[i].iteration = Visits(i, "analyze")

\* the router answered "search" once: a second cycle of questions, search,
\* analyze ran before the report, the first cycle having added three questions
C30_Witness ==
    \E i \in Invs :
        /\ demo = "research_assistant"
        /\ status[i] = "done"
        /\ trace[i] = <<"input", "questions", "search", "analyze",
                        "questions", "search", "analyze", "report">>
        /\ result[i].iteration = 2
        /\ Len(result[i].research_questions) >= 3

----------------------------------------------------------------------------
\* C31: in loops_demo an invocation that starts at iteration 0 with
\* max_iterations = m >= 1 ends with iteration = min(m, 3) after exactly that
\* many runs of search, with quality_score 0.3, 0.6 or 0.9 for a final
\* iteration of 1, 2 or 3, and with m = 3 the router leaves the loop through
\* its max-iterations branch.
C31_IterationsAndScores ==
    \A i \in Invs :
        (/\ demo = "loops_demo"
         /\ status[i] = "done"
         /\ init0[i].iteration = 0
         /\ init0[i].max_iterations >= 1) =>
            LET m == init0[i].max_iterations
            IN /\ result[i].iteration = Min(m, 3)
               /\ Visits(i, "search") = Min(m, 3)
               /\ result[i].quality_score = 3 * result[i].iteration
               /\ m = 3 => routerArg[i].iteration >= routerArg[i].max_iterations

\* a run of the script's own initial_state (max_iterations 3) ended after three
\* searches with the comprehensive score, the router leaving through its
\* max-iterations test
C31_Witness ==
    \E i \in Invs :
        /\ demo = "loops_demo"
        /\ status[i] = "done"
        /\ init0[i].query = <<"What", "is", "LangGraph?">>
        /\ init0[i].iteration = 0
        /\ init0[i].max_iterations = 3
        /\ result[i].iteration = 3
        /\ Visits(i, "search") = 3
        /\ result[i].quality_score = 9
        /\ routerArg[i].iteration >= routerArg[i].max_iterations

----------------------------------------------------------------------------
\* C32: the loops of loops_demo and of the research assistant test their exit
\* condition after the body. The router is never consulted, and no invocation
\* returns, before the search node has run; only a step function raising ahead
\* of the search node ends a run without a search. So an invocation whose
\* initial iteration is already at or past max_iterations (max_iterations = 0,
\* say) runs search exactly once and returns iteration = initial iteration + 1,
\* above max_iterations.
C32_DoWhileLoop ==
    \A i \in Invs :
        (demo \in {"loops_demo", "research_assistant"} /\ Started(i)) =>
            /\ Routed(i) => Visits(i, "search") >= 1
            /\ status[i] = "done" =>
                  /\ Visits(i, "search") >= 1
                  /\ result[i].iteration >= init0[i].iteration + 1
            /\ (status[i] = "failed" /\ Visits(i, "search") = 0) =>
                  /\ error[i] = "InvocationError"
                  /\ errnode[i] \in {"input", "questions"}
            /\ (status[i] = "done" /\ init0[i].iteration >= init0[i].max_iterations) =>
                  /\ Visits(i, "search") = 1
                  /\ result[i].iteration = init0[i].iteration + 1
                  /\ result[i].iteration > result[i].max_iterations

\* the research assistant was invoked with max_iterations = 0 and returned
\* after one search, with iteration = 1
C32_Witness ==
    \E i \in Invs :
        /\ demo = "research_assistant"
        /\ status[i] = "done"
        /\ init0[i].max_iterations = 0
        /\ init0[i].iteration = 0
        /\ Visits(i, "search") = 1
        /\ result[i].iteration = 1

----------------------------------------------------------------------------
\* C33: in the research assistant, whenever should_continue_research is
\* evaluated the state holds what the analyzer wrote together: quality_score =
\* min(0.2 * len(key_findings), 1.0), or the single placeholder finding with
\* 0.0. So ten or more key_findings come with a quality_score of at least 0.8,
\* and every "report" is answered by the max-iterations or the quality test,
\* never by the findings test.
C33_FindingsExitNeverDecides ==
    \A i \in Invs :
        (demo = "research_assistant" /\ Routed(i)) =>
            LET s == routerArg[i]
            IN /\ LastNode(i) = "analyze"
               /\ \/ s.quality_score = Min(2 * Len(s.key_findings), 10)
                  \/ /\ s.key_findings = <<"No search results to analyze">>
                     /\ s.quality_score = 0
               /\ Len(s.key_findings) >= 10 => s.quality_score >= 8
               /\ lastLabel[i] = "report" =>
                     \/ s.iteration >= s.max_iterations
                     \/ s.quality_score >= 8

\* the router was shown eleven findings with the iteration limit not reached,
\* and answered "report" on the quality score of 1.0
C33_Witness ==
    \E i \in Invs :
        /\ demo = "research_assistant"
        /\ Routed(i)
        /\ Len(routerArg[i].key_findings) = 11
        /\ routerArg[i].iteration < routerArg[i].max_iterations
        /\ routerArg[i].quality_score = 10
        /\ lastLabel[i] = "report"

----------------------------------------------------------------------------
\* C34: in the research assistant and the web app, when the analyzer runs with
\* an empty search_results its update is key_findings and quality_score alone:
\* key_findings becomes exactly the one placeholder entry, whatever it held
\* before, quality_score becomes 0.0, and status stays "search_completed".
C34_AnalyzerWithoutResults ==
    \A i \in Invs :
        (/\ demo \in {"research_assistant", "streamlit_app"}
         /\ Merged(i)
         /\ LastNode(i) = "analyze"
         /\ lastArg[i].pre.search_results = << >>) =>
            /\ DOMAIN lastUpd[i] = {"key_findings", "quality_score"}
            /\ state[i].key_findings = <<"No search results to analyze">>
            /\ state[i].quality_score = 0
            /\ lastArg[i].pre.status = "search_completed"
            /\ state[i].status = "search_completed"

\* the analyzer ran without search results on a state holding nine findings
\* and left the placeholder alone
C34_Witness ==
    \E i \in Invs :
        /\ demo = "research_assistant"
        /\ Merged(i)
        /\ LastNode(i) = "analyze"
        /\ lastArg[i].pre.search_results = << >>
        /\ Len(lastArg[i].pre.key_findings) = 9
        /\ state[i].key_findings = <<"No search results to analyze">>
        /\ state[i].status = "search_completed"
====
